---------------------------- MODULE Spec2Model ----------------------------
(***************************************************************************)
(* A model of patch_toml.py, the format-preserving TOML patcher.           *)
(*                                                                         *)
(* Text is modelled character by character: a Python str is a sequence of  *)
(* one-character strings (<<"k", " ", "=", " ", "1", "\n">>), a list of    *)
(* physical lines is a sequence of such sequences, each line keeping its   *)
(* line ending, as text.splitlines(keepends=True) returns them.  Line and  *)
(* column numbers that the code stores or returns (Header.start_line, the  *)
(* spans of find_assignment_block_by_full_path, ...) keep the code's       *)
(* 0-based values; LineAt converts when a line is read.  Python's None for *)
(* an index is the integer NoIndex.                                        *)
(***************************************************************************)
EXTENDS Integers, Sequences, FiniteSets, TLC

VARIABLES
    argv,        \* the requests of the command line, in the order given
    top_comment, \* args.top_comment: a text, or NoComment
    input,       \* the input file: [readable, text], text a sequence of lines
    pc,          \* where main() stands
    lines,       \* main's local `lines`, the document in memory
    step,        \* how many requests main has applied so far
    exit_code,   \* the process's exit code; Running while main runs
    output,      \* the output file: [written, text], written once opened
    co_warmup,   \* the interpreter's warm-up of the parser's functions
    trace,       \* history: one record per request that main went on to apply
    fv           \* the value under test of the formatter specification

vars == <<argv, top_comment, input, pc, lines, step, exit_code, output, co_warmup,
          trace, fv>>

----------------------------------------------------------------------------
(* Characters.                                                             *)

\* The backspace character U+0008; TLA+ has no string escape for it.
BS == "BS"
\* The form feed character U+000C.
FF == "\f"
\* The delete character U+007F.
DEL == "DEL"

\* Python's None where the code holds Optional[int].
NoIndex == -1

Digits == <<"0", "1", "2", "3", "4", "5", "6", "7", "8", "9">>
DigitSet == {Digits[i] : i \in 1..10}
DigitVal(c) == (CHOOSE i \in 1..10 : Digits[i] = c) - 1

LowerSet == {"a", "b", "c", "d", "e", "f", "g", "h", "i", "j", "k", "l", "m",
             "n", "o", "p", "q", "r", "s", "t", "u", "v", "w", "x", "y", "z"}
UpperSet == {"A", "B", "C", "D", "E", "F", "G", "H", "I", "J", "K", "L", "M",
             "N", "O", "P", "Q", "R", "S", "T", "U", "V", "W", "X", "Y", "Z"}

\* The characters str.strip() removes and \s matches.
IsSpace(c) == c \in {" ", "\t", "\n", "\r", FF}

RECURSIVE LStrip(_)
LStrip(s) == IF s /= <<>> /\ IsSpace(Head(s)) THEN LStrip(Tail(s)) ELSE s

RECURSIVE RStrip(_)
RStrip(s) ==
    IF s /= <<>> /\ IsSpace(s[Len(s)]) THEN RStrip(SubSeq(s, 1, Len(s) - 1)) ELSE s

Strip(s) == RStrip(LStrip(s))

StartsWith(s, p) == Len(s) >= Len(p) /\ SubSeq(s, 1, Len(p)) = p
EndsWith(s, p) == Len(s) >= Len(p) /\ SubSeq(s, Len(s) - Len(p) + 1, Len(s)) = p

\* s[i:] and s[:i] of Python, i a 0-based offset with 0 <= i.
From(s, i) == SubSeq(s, i + 1, Len(s))
Upto(s, i) == SubSeq(s, 1, IF i < Len(s) THEN i ELSE Len(s))

RECURSIVE Flatten(_)
Flatten(ss) == IF ss = <<>> THEN <<>> ELSE Head(ss) \o Flatten(Tail(ss))

\* sep.join(parts)
RECURSIVE Join(_, _)
Join(sep, parts) ==
    IF parts = <<>> THEN <<>>
    ELSE IF Len(parts) = 1 THEN parts[1]
    ELSE parts[1] \o sep \o Join(sep, Tail(parts))

----------------------------------------------------------------------------
(* CLI patch specification parsing.                                        *)

PathSegment(name, index) == [name |-> name, index |-> index]

\* The loop of _split_path_tokens over s, i a 1-based position.
RECURSIVE SplitLoop(_, _, _, _, _, _)
SplitLoop(s, i, buf, out, in_dq, in_sq) ==
    IF i > Len(s)
    THEN LET final == Strip(buf)
         IN  IF final /= <<>> THEN Append(out, final) ELSE out
    ELSE LET ch == s[i] IN
         IF in_dq
         THEN IF ch = "\\"
              THEN IF i + 1 <= Len(s)
                   THEN SplitLoop(s, i + 2, buf \o <<ch, s[i + 1]>>, out, TRUE, in_sq)
                   ELSE SplitLoop(s, i + 2, Append(buf, ch), out, TRUE, in_sq)
              ELSE SplitLoop(s, i + 1, Append(buf, ch), out, ch /= "\"", in_sq)
         ELSE IF in_sq
         THEN SplitLoop(s, i + 1, Append(buf, ch), out, in_dq, ch /= "'")
         ELSE IF ch = "\""
         THEN SplitLoop(s, i + 1, Append(buf, ch), out, TRUE, in_sq)
         ELSE IF ch = "'"
         THEN SplitLoop(s, i + 1, Append(buf, ch), out, in_dq, TRUE)
         ELSE IF ch = "."
         THEN SplitLoop(s, i + 1, <<>>, Append(out, Strip(buf)), in_dq, in_sq)
         ELSE SplitLoop(s, i + 1, Append(buf, ch), out, in_dq, in_sq)

_split_path_tokens(raw) == SplitLoop(Strip(raw), 1, <<>>, <<>>, FALSE, FALSE)

\* The escape mapping of _unquote_key: mapping.get(esc, esc).
UnescapeChar(esc) ==
    CASE esc = "b" -> BS
      [] esc = "t" -> "\t"
      [] esc = "n" -> "\n"
      [] esc = "r" -> "\r"
      [] OTHER -> esc

RECURSIVE UnquoteLoop(_, _, _)
UnquoteLoop(body, i, out) ==
    IF i > Len(body) THEN out
    ELSE IF body[i] = "\\"
    THEN IF i + 1 <= Len(body)
         THEN UnquoteLoop(body, i + 2, Append(out, UnescapeChar(body[i + 1])))
         ELSE UnquoteLoop(body, i + 2, out)
    ELSE UnquoteLoop(body, i + 1, Append(out, body[i]))

_unquote_key(tok0) ==
    LET tok == Strip(tok0) IN
    IF StartsWith(tok, <<"\"">>) /\ EndsWith(tok, <<"\"">>)
    THEN UnquoteLoop(SubSeq(tok, 2, Len(tok) - 1), 1, <<>>)
    ELSE IF StartsWith(tok, <<"'">>) /\ EndsWith(tok, <<"'">>)
    THEN SubSeq(tok, 2, Len(tok) - 1)
    ELSE tok

\* The number a string of decimal digits writes, after the number acc of the
\* digits before it.
RECURSIVE DigitsValue(_, _)
DigitsValue(ds, acc) ==
    IF ds = <<>> THEN acc ELSE DigitsValue(Tail(ds), 10 * acc + DigitVal(Head(ds)))

\* sys.int_info.default_max_str_digits: int() raises ValueError on a string of
\* more digits than this.
IntMaxStrDigits == 4300

\* int() of a string of decimal digits: ok is FALSE where int() raises
\* ValueError.
DigitsToInt(ds) ==
    IF Len(ds) > IntMaxStrDigits THEN [ok |-> FALSE, val |-> 0]
    ELSE [ok |-> TRUE, val |-> DigitsValue(ds, 0)]

\* _INDEX_RE = ^(?P<name>.+?)\[(?P<idx>\d+)\]$ : the 1-based position of the
\* "[" that opens the index suffix, 0 when the token does not match.  The
\* suffix holds digits only, so the "[" is the last one of the token.
IndexBracket(t) ==
    LET opens == {p \in 2..Len(t) :
                    /\ t[p] = "["
                    /\ t[Len(t)] = "]"
                    /\ p + 1 <= Len(t) - 1
                    /\ \A q \in (p + 1)..(Len(t) - 1) : t[q] \in DigitSet
                    /\ \A q \in 1..(p - 1) : t[q] /= "\n"}
    IN  IF opens = {} THEN 0 ELSE CHOOSE p \in opens : TRUE

\* The segment of a token with an index suffix, idx the int() of the suffix.
IndexedSegment(name, idx) ==
    [ok |-> idx.ok, seg |-> PathSegment(_unquote_key(Strip(name)), idx.val)]

\* The body of the loop of parse_path_with_indices for one token: the segment,
\* ok FALSE where int() of the index raises ValueError.
ParseOneSegment(t0) ==
    LET t == Strip(t0)
        p == IndexBracket(t)
    IN  IF p > 0
        THEN IndexedSegment(SubSeq(t, 1, p - 1), DigitsToInt(SubSeq(t, p + 1, Len(t) - 1)))
        ELSE [ok |-> TRUE, seg |-> PathSegment(_unquote_key(t), NoIndex)]

\* The segments of the parsed tokens, ok FALSE where one of them raised.
PathOfSegments(parsed) ==
    IF \A i \in 1..Len(parsed) : parsed[i].ok
    THEN [ok |-> TRUE, segs |-> [i \in 1..Len(parsed) |-> parsed[i].seg]]
    ELSE [ok |-> FALSE, segs |-> <<>>]

\* parse_path_with_indices: [ok, segs]; ok is FALSE where it raises ValueError.
parse_path_with_indices(path) ==
    LET toks == _split_path_tokens(path)
    IN  PathOfSegments([i \in 1..Len(toks) |-> ParseOneSegment(toks[i])])

\* The first 0-based position of character c in s outside quotes, as the two
\* scanning loops of split_set_expression find it; -1 when there is none.
RECURSIVE FindOutsideQuotes(_, _, _, _, _)
FindOutsideQuotes(s, c, i, in_dq, in_sq) ==
    IF i > Len(s) THEN -1
    ELSE IF s[i] = "\"" /\ ~in_sq THEN FindOutsideQuotes(s, c, i + 1, ~in_dq, in_sq)
    ELSE IF s[i] = "'" /\ ~in_dq THEN FindOutsideQuotes(s, c, i + 1, in_dq, ~in_sq)
    ELSE IF s[i] = c /\ ~in_dq /\ ~in_sq THEN i - 1
    ELSE FindOutsideQuotes(s, c, i + 1, in_dq, in_sq)

\* Python's None where the code holds an Optional[str] comment.
NoComment == <<"None">>

\* split_set_expression: ok = FALSE stands for the ValueError.
split_set_expression(s) ==
    LET eq_pos == FindOutsideQuotes(s, "=", 1, FALSE, FALSE)
        path == Strip(Upto(s, eq_pos))
        rhs == Strip(From(s, eq_pos + 1))
        hash_pos == FindOutsideQuotes(rhs, "#", 1, FALSE, FALSE)
        value_src == IF hash_pos /= -1 THEN RStrip(Upto(rhs, hash_pos)) ELSE rhs
        comment == IF hash_pos /= -1 THEN Strip(From(rhs, hash_pos + 1)) ELSE NoComment
        bad == [ok |-> FALSE, path |-> <<>>, value_src |-> <<>>, comment |-> NoComment]
    IN  IF eq_pos = -1 THEN bad
        ELSE IF path = <<>> THEN bad
        ELSE IF value_src = <<>> THEN bad
        ELSE [ok |-> TRUE, path |-> path, value_src |-> value_src, comment |-> comment]

----------------------------------------------------------------------------
(* Source document scanning.                                               *)

\* lines[i] of Python, i 0-based.
LineAt(lines_, i) == lines_[i + 1]

Header(kind, path, aot_index, start_line, end_line) ==
    [kind |-> kind, path |-> path, aot_index |-> aot_index,
     start_line |-> start_line, end_line |-> end_line]

\* Header.id_segments
id_segments(h) ==
    IF h.kind = "aot"
    THEN [i \in 1..Len(h.path) |->
            IF i < Len(h.path) THEN PathSegment(h.path[i], NoIndex)
            ELSE PathSegment(h.path[i], h.aot_index)]
    ELSE IF h.kind = "table"
    THEN [i \in 1..Len(h.path) |-> PathSegment(h.path[i], NoIndex)]
    ELSE <<>>

\* What may follow the closing bracket of a header line: \s*(?:#.*)?$
HeaderRestOK(rest) ==
    LET r == LStrip(rest)
    IN  \/ r = <<>>
        \/ /\ r[1] = "#"
           /\ \A i \in 2..Len(r) : r[i] = "\n" => i = Len(r)

\* The match of ^\s*<open>(?P<body>.+?)<close>\s*(?:#.*)?$ on a line: the body,
\* or NoMatch.  The lazy body ends at the first closing bracket that the rest
\* of the pattern accepts; noDouble is the (?!\[) of the table pattern.
NoMatch == <<"NoMatch">>
HeaderMatch(line, open, close, noDouble) ==
    LET p == Len(line) - Len(LStrip(line)) + 1
        b == p + Len(open)
        ends == {q \in (b + 1)..Len(line) :
                   /\ q + Len(close) - 1 <= Len(line)
                   /\ SubSeq(line, q, q + Len(close) - 1) = close
                   /\ \A i \in b..(q - 1) : line[i] /= "\n"
                   /\ HeaderRestOK(SubSeq(line, q + Len(close), Len(line)))}
    IN  IF /\ b - 1 <= Len(line)
           /\ SubSeq(line, p, b - 1) = open
           /\ (noDouble => (b <= Len(line) => line[b] /= "["))
           /\ ends /= {}
        THEN LET q == CHOOSE q \in ends : \A r \in ends : q <= r
             IN  SubSeq(line, b, q - 1)
        ELSE NoMatch

_HEADER_TABLE_RE(line) == HeaderMatch(line, <<"[">>, <<"]">>, TRUE)
_HEADER_AOT_RE(line) == HeaderMatch(line, <<"[", "[">>, <<"]", "]">>, FALSE)

UnquoteAll(toks) == [i \in 1..Len(toks) |-> _unquote_key(toks[i])]

\* _parse_header_line: kind "none" stands for None.
_parse_header_line(line) ==
    LET t == _HEADER_TABLE_RE(line)
        a == _HEADER_AOT_RE(line)
    IN  IF t /= NoMatch
        THEN [kind |-> "table", path |-> UnquoteAll(_split_path_tokens(Strip(t)))]
        ELSE IF a /= NoMatch
        THEN [kind |-> "aot", path |-> UnquoteAll(_split_path_tokens(Strip(a)))]
        ELSE [kind |-> "none", path |-> <<>>]

_is_comment_or_blank(line) ==
    LET s == Strip(line) IN s = <<>> \/ s[1] = "#"

\* AddHeader with one counter for all array-of-table headers, whatever their
\* path.
AddHeaderOneCounter(hs, parsed, i) ==
    IF parsed.kind = "none" THEN hs
    ELSE IF parsed.kind = "aot"
    THEN LET idx == Cardinality({j \in 1..Len(hs) : hs[j].kind = "aot"})
         IN  Append(hs, Header("aot", parsed.path, idx, i, i))
    ELSE Append(hs, Header("table", parsed.path, NoIndex, i, i))

\* The body of the first loop of index_headers for line i, parsed: hs with the
\* line's header appended, if it is one.  aot_counters[key] is the number of
\* array-of-table headers already in hs with that path.
AddHeader(hs, parsed, i) ==
    IF parsed.kind = "none" THEN hs
    ELSE IF parsed.kind = "aot"
    THEN LET idx == Cardinality({j \in 1..Len(hs) :
                       hs[j].kind = "aot" /\ hs[j].path = parsed.path})
         IN  Append(hs, Header("aot", parsed.path, idx, i, i))
    ELSE Append(hs, Header("table", parsed.path, NoIndex, i, i))

\* The first loop of index_headers: the headers found in lines i.., appended to
\* hs.
RECURSIVE ScanHeaders(_, _, _)
ScanHeaders(lines_, i, hs) ==
    IF i >= Len(lines_) THEN hs
    ELSE ScanHeaders(lines_, i + 1, AddHeader(hs, _parse_header_line(LineAt(lines_, i)), i))

\* The backward walk left out: the end stays at the line before the next header.
TrimEndKeep(lines_, j, start_line) == j

\* The backward walk over trailing comment and blank lines.
RECURSIVE TrimEnd(_, _, _)
TrimEnd(lines_, j, start_line) ==
    IF j > start_line /\ _is_comment_or_blank(LineAt(lines_, j))
    THEN TrimEnd(lines_, j - 1, start_line)
    ELSE j

\* The second loop of index_headers: the headers hs with their end lines.
SetEndLines(lines_, hs) ==
    LET next_start(k) == IF k + 1 <= Len(hs) THEN hs[k + 1].start_line ELSE Len(lines_)
    IN  [k \in 1..Len(hs) |->
            IF hs[k].kind = "root"
            THEN [hs[k] EXCEPT !.end_line = next_start(k) - 1]
            ELSE [hs[k] EXCEPT !.end_line =
                      TrimEnd(lines_, next_start(k) - 1, hs[k].start_line)]]

index_headers(lines_) ==
    SetEndLines(lines_, ScanHeaders(lines_, 0, <<Header("root", <<>>, NoIndex, -1, -1)>>))

_segments_equal(a, b) ==
    /\ Len(a) = Len(b)
    /\ \A i \in 1..Len(a) : a[i].name = b[i].name /\ a[i].index = b[i].index

Names(segs) == [i \in 1..Len(segs) |-> segs[i].name]

\* The first header among those at the positions ks: a list comprehension's [0].
FirstAt(headers, ks) == headers[CHOOSE k \in ks : \A j \in ks : k <= j]

NoHeader == Header("none", <<>>, NoIndex, -1, -1)
SectionFound(h) ==
    [status |-> "ok", header |-> h, start |-> h.start_line + 1, end |-> h.end_line]
SectionError(e) == [status |-> e, header |-> NoHeader, start |-> -1, end |-> -1]

\* find_section_block with the index of the last segment not compared: the
\* first array-of-table header of the path is taken whatever the index asked.
find_section_block_any_index(headers, target) ==
    LET roots == {k \in 1..Len(headers) : headers[k].kind = "root"}
        tables == {k \in 1..Len(headers) :
                     headers[k].kind = "table" /\ headers[k].path = Names(target)}
        aot_candidates == {k \in 1..Len(headers) :
                             headers[k].kind = "aot" /\ headers[k].path = Names(target)}
    IN  IF target = <<>>
        THEN IF roots /= {} THEN SectionFound(FirstAt(headers, roots))
             ELSE SectionError("RuntimeError")
        ELSE IF target[Len(target)].index /= NoIndex
        THEN IF aot_candidates = {} THEN SectionError("KeyError")
             ELSE SectionFound(FirstAt(headers, aot_candidates))
        ELSE IF tables /= {} THEN SectionFound(FirstAt(headers, tables))
        ELSE IF Cardinality(aot_candidates) = 0 THEN SectionError("KeyError")
        ELSE IF Cardinality(aot_candidates) > 1 THEN SectionError("RuntimeError")
        ELSE SectionFound(FirstAt(headers, aot_candidates))

\* find_section_block: status "KeyError" and "RuntimeError" stand for the
\* exception raised.
find_section_block(headers, target) ==
    LET roots == {k \in 1..Len(headers) : headers[k].kind = "root"}
        candidates == {k \in 1..Len(headers) :
                         /\ headers[k].kind = "aot"
                         /\ headers[k].path = Names(target)
                         /\ headers[k].aot_index = target[Len(target)].index}
        tables == {k \in 1..Len(headers) :
                     headers[k].kind = "table" /\ headers[k].path = Names(target)}
        aot_candidates == {k \in 1..Len(headers) :
                             headers[k].kind = "aot" /\ headers[k].path = Names(target)}
    IN  IF target = <<>>
        THEN IF roots /= {} THEN SectionFound(FirstAt(headers, roots))
             ELSE SectionError("RuntimeError")
        ELSE IF target[Len(target)].index /= NoIndex
        THEN IF candidates = {} THEN SectionError("KeyError")
             ELSE SectionFound(FirstAt(headers, candidates))
        ELSE IF tables /= {} THEN SectionFound(FirstAt(headers, tables))
        ELSE IF Cardinality(aot_candidates) = 0 THEN SectionError("KeyError")
        ELSE IF Cardinality(aot_candidates) > 1 THEN SectionError("RuntimeError")
        ELSE SectionFound(FirstAt(headers, aot_candidates))

\* _parse_assignment_key_segments: <<>> also stands for None, which the caller
\* treats alike.
_parse_assignment_key_segments(lhs0) ==
    LET lhs == Strip(lhs0) IN
    IF lhs = <<>> \/ lhs[1] = "#" THEN <<>>
    ELSE UnquoteAll(_split_path_tokens(lhs))

\* The loop of _find_equals_outside_quotes, i a 1-based position; the result is
\* the 0-based position, -1 for none.
RECURSIVE FindEquals(_, _, _, _)
FindEquals(line, i, in_dq, in_sq) ==
    IF i > Len(line) THEN -1
    ELSE IF line[i] = "\"" /\ ~in_sq
    THEN IF i > 1 /\ line[i - 1] = "\\"
         THEN FindEquals(line, i + 1, in_dq, in_sq)
         ELSE FindEquals(line, i + 1, ~in_dq, in_sq)
    ELSE IF line[i] = "'" /\ ~in_dq THEN FindEquals(line, i + 1, in_dq, ~in_sq)
    ELSE IF line[i] = "=" /\ ~in_dq /\ ~in_sq THEN i - 1
    ELSE FindEquals(line, i + 1, in_dq, in_sq)

_find_equals_outside_quotes(line) == FindEquals(line, 1, FALSE, FALSE)

TRIPLE_DQ == <<"\"", "\"", "\"">>
TRIPLE_SQ == <<"'", "'", "'">>

\* The scanner state of _value_block_end: mode is "normal", "dq", "sq", "tdq"
\* or "tsq" (at most one of the four flags is ever set).
ScanState(mode, sq, cu) == [mode |-> mode, depth_square |-> sq, depth_curly |-> cu]

\* The inner loop over one line's text from 1-based position j: the state at
\* the end of the line, with hash = TRUE when an inline comment ended the value.
RECURSIVE ScanText(_, _, _)
ScanText(text, j, st) ==
    IF j > Len(text) THEN [st |-> st, hash |-> FALSE]
    ELSE LET ch == text[j]
             nxt3 == SubSeq(text, j, IF j + 2 <= Len(text) THEN j + 2 ELSE Len(text))
         IN
         IF st.mode = "tdq"
         THEN IF nxt3 = TRIPLE_DQ THEN ScanText(text, j + 3, [st EXCEPT !.mode = "normal"])
              ELSE ScanText(text, j + 1, st)
         ELSE IF st.mode = "tsq"
         THEN IF nxt3 = TRIPLE_SQ THEN ScanText(text, j + 3, [st EXCEPT !.mode = "normal"])
              ELSE ScanText(text, j + 1, st)
         ELSE IF st.mode = "dq"
         THEN IF ch = "\\" THEN ScanText(text, j + 2, st)
              ELSE IF ch = "\"" THEN ScanText(text, j + 1, [st EXCEPT !.mode = "normal"])
              ELSE ScanText(text, j + 1, st)
         ELSE IF st.mode = "sq"
         THEN IF ch = "'" THEN ScanText(text, j + 1, [st EXCEPT !.mode = "normal"])
              ELSE ScanText(text, j + 1, st)
         ELSE IF nxt3 = TRIPLE_DQ THEN ScanText(text, j + 3, [st EXCEPT !.mode = "tdq"])
         ELSE IF nxt3 = TRIPLE_SQ THEN ScanText(text, j + 3, [st EXCEPT !.mode = "tsq"])
         ELSE IF ch = "\"" THEN ScanText(text, j + 1, [st EXCEPT !.mode = "dq"])
         ELSE IF ch = "'" THEN ScanText(text, j + 1, [st EXCEPT !.mode = "sq"])
         ELSE IF ch = "["
         THEN ScanText(text, j + 1, [st EXCEPT !.depth_square = @ + 1])
         ELSE IF ch = "]"
         THEN ScanText(text, j + 1,
                       [st EXCEPT !.depth_square = IF @ > 0 THEN @ - 1 ELSE @])
         ELSE IF ch = "{"
         THEN ScanText(text, j + 1, [st EXCEPT !.depth_curly = @ + 1])
         ELSE IF ch = "}"
         THEN ScanText(text, j + 1,
                       [st EXCEPT !.depth_curly = IF @ > 0 THEN @ - 1 ELSE @])
         ELSE IF ch = "#" /\ st.depth_square = 0 /\ st.depth_curly = 0
         THEN [st |-> st, hash |-> TRUE]
         ELSE ScanText(text, j + 1, st)

\* The outer loop of _value_block_end over lines i.. (0-based).
RECURSIVE ScanLines(_, _, _, _, _)
ScanLines(lines_, start_line, start_col, i, st) ==
    IF i >= Len(lines_) THEN Len(lines_) - 1
    ELSE LET text == IF i = start_line THEN From(LineAt(lines_, i), start_col)
                     ELSE LineAt(lines_, i)
             r == ScanText(text, 1, st)
         IN  IF r.hash THEN i
             ELSE IF r.st.depth_square = 0 /\ r.st.depth_curly = 0 /\ r.st.mode = "normal"
             THEN i
             ELSE ScanLines(lines_, start_line, start_col, i + 1, r.st)

_value_block_end(lines_, start_line, start_col) ==
    ScanLines(lines_, start_line, start_col, start_line, ScanState("normal", 0, 0))

\* The scanning loop of find_assignment_block_by_full_path over lines i..end_:
\* the matches, each [start, end, ksegs].
RECURSIVE MatchLoop(_, _, _, _, _, _)
MatchLoop(lines_, header, full_path, i, end_, matches) ==
    IF ~(i <= end_ /\ i < Len(lines_)) THEN matches
    ELSE LET line == LineAt(lines_, i)
             stripped == LStrip(line)
             eq_pos == _find_equals_outside_quotes(line)
             ksegs == _parse_assignment_key_segments(Upto(line, eq_pos))
             full_key == id_segments(header)
                           \o [k \in 1..Len(ksegs) |-> PathSegment(ksegs[k], NoIndex)]
         IN  IF stripped = <<>> \/ stripped[1] = "#" \/ stripped[1] = "["
             THEN MatchLoop(lines_, header, full_path, i + 1, end_, matches)
             ELSE IF eq_pos = -1
             THEN MatchLoop(lines_, header, full_path, i + 1, end_, matches)
             ELSE IF ksegs = <<>>
             THEN MatchLoop(lines_, header, full_path, i + 1, end_, matches)
             ELSE IF _segments_equal(full_key, full_path)
             THEN MatchLoop(lines_, header, full_path, i + 1, end_,
                      Append(matches, [start |-> i,
                                       end |-> _value_block_end(lines_, i, eq_pos + 1),
                                       ksegs |-> ksegs]))
             ELSE MatchLoop(lines_, header, full_path, i + 1, end_, matches)

BlockError(e) == [status |-> e, start |-> -1, end |-> -1, ksegs |-> <<>>]

\* The end of find_assignment_block_by_full_path, after its scanning loop has
\* collected matches: the one match, or the exception raised.
OneMatch(matches, headers, table_path) ==
    LET n_aot == Cardinality({k \in 1..Len(headers) :
                     /\ headers[k].kind = "aot"
                     /\ headers[k].path = Names(table_path)})
    IN  IF matches = <<>>
        THEN IF /\ table_path /= <<>>
                /\ table_path[Len(table_path)].index = NoIndex
                /\ n_aot > 1
             THEN BlockError("RuntimeError")
             ELSE BlockError("KeyError")
        ELSE IF Len(matches) > 1 THEN BlockError("RuntimeError")
        ELSE [status |-> "ok", start |-> matches[1].start,
              end |-> matches[1].end, ksegs |-> matches[1].ksegs]

\* find_assignment_block_by_full_path: status "KeyError" and "RuntimeError"
\* stand for the exception raised.
find_assignment_block_by_full_path(lines_, headers, full_path) ==
    IF full_path = <<>> THEN BlockError("KeyError")
    ELSE LET table_path == SubSeq(full_path, 1, Len(full_path) - 1)
             sec == find_section_block(headers, table_path)
         IN  IF sec.status /= "ok" THEN BlockError(sec.status)
             ELSE OneMatch(MatchLoop(lines_, sec.header, full_path,
                                     IF sec.start > 0 THEN sec.start ELSE 0,
                                     sec.end, <<>>),
                           headers, table_path)

----------------------------------------------------------------------------
(* Structural values and their canonical emission.  A value is a record    *)
(* [t, v]: t = "bool" with v a BOOLEAN, "int" with v an integer, "str"     *)
(* with v a character sequence, "arr" with v a sequence of values, "tab"   *)
(* with v a sequence of [k, v] pairs in insertion order.  Floats and dates *)
(* are outside the values modelled.                                        *)

VBool(b) == [t |-> "bool", v |-> b]
VInt(n) == [t |-> "int", v |-> n]
VStr(s) == [t |-> "str", v |-> s]
VArr(xs) == [t |-> "arr", v |-> xs]
VTab(kvs) == [t |-> "tab", v |-> kvs]

\* One character of _escape_string's loop.
EscapeChar(c) ==
    CASE c = "\\" -> <<"\\", "\\">>
      [] c = "\"" -> <<"\\", "\"">>
      [] c = BS -> <<"\\", "b">>
      [] c = "\t" -> <<"\\", "t">>
      [] c = "\n" -> <<"\\", "n">>
      [] c = "\r" -> <<"\\", "r">>
      [] OTHER -> <<c>>

_escape_string(s) ==
    <<"\"">> \o Flatten([i \in 1..Len(s) |-> EscapeChar(s[i])]) \o <<"\"">>

\* _BARE_KEY_RE = ^[A-Za-z0-9_-]+$ ; the $ also matches before a final newline.
BareKeyChars == LowerSet \cup UpperSet \cup DigitSet \cup {"_", "-"}
_BARE_KEY_RE(seg) ==
    LET core == IF seg /= <<>> /\ seg[Len(seg)] = "\n"
                THEN SubSeq(seg, 1, Len(seg) - 1) ELSE seg
    IN  core /= <<>> /\ \A i \in 1..Len(core) : core[i] \in BareKeyChars

_format_key_segment(seg) == IF _BARE_KEY_RE(seg) THEN seg ELSE _escape_string(seg)

\* str() of an integer.
RECURSIVE NatToStr(_)
NatToStr(n) ==
    IF n < 10 THEN <<Digits[n + 1]>>
    ELSE NatToStr(n \div 10) \o <<Digits[(n % 10) + 1]>>
IntToStr(n) == IF n < 0 THEN <<"-">> \o NatToStr(-n) ELSE NatToStr(n)

\* The depth of the interpreter's call stack.  The frame of the script is at
\* depth 1 and main's at depth 2.  CPython takes one level for every call of a
\* Python function (a generator expression's frame included) and one more,
\* while it runs, for a call of a built-in function or method and for the call
\* of a class; the built-in types called here (int, set, range) and the
\* specialised len, isinstance and list.append take none.  A call that would
\* take the depth past the limit raises RecursionError.

\* sys.getrecursionlimit(), which the program leaves at the interpreter's
\* default.
RecursionLimit == 1000

\* A frame or a call in progress at depth d is within the limit.
Fits(d) == d <= RecursionLimit

\* The frame of main under sys.exit(main()).
MainFrame == 2

\* The interpreter specialises the code of a function once the function has
\* been entered, or has gone round a loop, eight times in the process: from
\* the eighth time on a comparison of two strings takes no level, before it
\* the comparison is a call at one level above the frame.  The warm-up is
\* the number of those times so far, for each function whose comparisons can
\* be the deepest thing it does; it counts no further than the eighth.  Every
\* other function of the parser calls something at a level above its frame
\* on each of its paths, and format_toml_value comes to the limit only in a
\* value nested so deep that it has been entered far more than eight times.
QUICKENING_WARMUP_DELAY == 8

\* The warm-up of a process that has parsed nothing yet.
NoWarmup == [skip_comment |-> 0, parse_basic_str |-> 0, parse_basic_str_escape |-> 0]

\* The warm-up once the function f has been entered or has gone round its
\* loop one more time.
Ran(w, f) == [w EXCEPT ![f] = IF @ < QUICKENING_WARMUP_DELAY THEN @ + 1 ELSE @]

\* The depth a comparison of strings in the function f reaches from f's frame
\* at depth d.
CompareDepth(w, f, d) == IF w[f] = QUICKENING_WARMUP_DELAY THEN d ELSE d + 1

\* What format_toml_value gives: its text, or ok = FALSE for RecursionError.
FormatErr == [ok |-> FALSE, text |-> <<>>]
FormatOk(text) == [ok |-> TRUE, text |-> text]
AllFormatted(rs) == \A i \in 1..Len(rs) : rs[i].ok
FormattedTexts(rs) == [i \in 1..Len(rs) |-> rs[i].text]

\* A table's part for the key k: _format_key_segment(k) runs at depth d + 1,
\* its pattern match at d + 2, and _escape_string at d + 2 with its join at
\* d + 3; r is format_toml_value of the value.
FormatPart(k, r, d) ==
    IF ~Fits(IF _BARE_KEY_RE(k) THEN d + 2 ELSE d + 3) \/ ~r.ok THEN FormatErr
    ELSE FormatOk(_format_key_segment(k) \o <<" ", "=", " ">> \o r.text)

\* The table whose parts are rs; obj.items() and the join are calls at d + 1.
FormatTable(rs, d) ==
    IF ~Fits(d + 1) \/ ~AllFormatted(rs) THEN FormatErr
    ELSE FormatOk(<<"{", " ">> \o Join(<<",", " ">>, FormattedTexts(rs)) \o <<" ", "}">>)

\* The array whose items are formatted as rs; the join is a call at depth
\* d + 1 and the generator expression it draws from runs at d + 2.
FormatArray(rs, d) ==
    IF ~Fits(d + 2) \/ ~AllFormatted(rs) THEN FormatErr
    ELSE FormatOk(<<"[">> \o Join(<<",", " ">>, FormattedTexts(rs)) \o <<"]">>)

\* format_toml_value called at depth d.  str(obj) is a call at depth d + 1;
\* _escape_string runs at d + 1 and its join at d + 2.
RECURSIVE format_toml_value(_, _)
format_toml_value(obj, d) ==
    IF ~Fits(d) THEN FormatErr
    ELSE CASE obj.t = "bool" -> FormatOk(IF obj.v THEN <<"t", "r", "u", "e">>
                                         ELSE <<"f", "a", "l", "s", "e">>)
           [] obj.t = "int" -> IF Fits(d + 1) THEN FormatOk(IntToStr(obj.v)) ELSE FormatErr
           [] obj.t = "str" ->
                 IF Fits(d + 2) THEN FormatOk(_escape_string(obj.v)) ELSE FormatErr
           [] obj.t = "tab" ->
                 FormatTable([i \in 1..Len(obj.v) |->
                                FormatPart(obj.v[i].k,
                                           format_toml_value(obj.v[i].v, d + 1), d)], d)
           [] obj.t = "arr" ->
                 FormatArray([i \in 1..Len(obj.v) |-> format_toml_value(obj.v[i], d + 3)], d)

----------------------------------------------------------------------------
(* The delegated TOML parser: tomllib.loads of the standard library, which *)
(* parse_toml_value and validate_toml_document call.  It is modelled as    *)
(* the recursive-descent parser it is, over the flat source text, with its *)
(* nested dictionary and its namespace flags.  Positions are 0-based as in *)
(* tomllib.  Outside the model: floats, dates and times, non-decimal and   *)
(* underscored integers, and the \u and \U string escapes; no text of the  *)
(* bounded inputs uses them.                                               *)
(*                                                                         *)
(* Each function of the parser is the operator of its name.  The functions *)
(* call one another through Call, the one recursive operator of this       *)
(* section: Call("parse_value", <<src, pos, d, w>>) is parse_value(src,   *)
(* pos, d, w).                                                             *)
(* The recursion of the parser is tied in that one place, and TLC expands  *)
(* each function once, not once for every chain of calls that reaches it.  *)
(* The character-skipping helpers are called directly.                     *)
(*                                                                         *)
(* The argument d of a function is the depth of the call stack at which    *)
(* its frame runs, and the argument w the warm-up it is entered with; the  *)
(* warm-up it leaves is part of its result and goes to whatever runs next. *)
(* A call that would take the depth past RecursionLimit raises             *)
(* RecursionError, which no handler of the parser catches: the parse fails *)
(* as a whole, and ok = FALSE stands for it as it does for                 *)
(* TOMLDecodeError.  skip_chars calls nothing.                             *)

RECURSIVE Call(_, _)

EOF == "EOF"
CharAt(src, pos) == IF pos < Len(src) THEN src[pos + 1] ELSE EOF
StartsAt(src, p, pos) ==
    pos + Len(p) <= Len(src) /\ SubSeq(src, pos + 1, pos + Len(p)) = p

\* ASCII_CTRL, as far as the modelled characters go.
ASCII_CTRL == {"\t", "\n", "\r", FF, BS, DEL}
ILLEGAL_BASIC_STR_CHARS == ASCII_CTRL \ {"\t"}
ILLEGAL_MULTILINE_BASIC_STR_CHARS == ASCII_CTRL \ {"\t", "\n"}
TOML_WS == {" ", "\t"}
TOML_WS_AND_NEWLINE == TOML_WS \cup {"\n"}

\* What a function of the parser gives: the position it has reached, its
\* value and the warm-up it leaves, or ok = FALSE for an exception.
PErr == [ok |-> FALSE, pos |-> 0, val |-> VBool(FALSE)]
POk(pos, val, w) == [ok |-> TRUE, pos |-> pos, val |-> val, warmup |-> w]

\* src.replace("\r\n", "\n")
RECURSIVE ReplaceCRLF(_)
ReplaceCRLF(s) ==
    IF s = <<>> THEN <<>>
    ELSE IF Len(s) >= 2 /\ s[1] = "\r" /\ s[2] = "\n" THEN <<"\n">> \o ReplaceCRLF(SubSeq(s, 3, Len(s)))
    ELSE <<s[1]>> \o ReplaceCRLF(Tail(s))

RECURSIVE skip_chars(_, _, _)
skip_chars(src, pos, chars) ==
    IF pos < Len(src) /\ src[pos + 1] \in chars THEN skip_chars(src, pos + 1, chars) ELSE pos

\* src.index(expect, pos), Len(src) when there is none.
RECURSIVE IndexOf(_, _, _)
IndexOf(src, expect, pos) ==
    IF pos >= Len(src) THEN Len(src)
    ELSE IF StartsAt(src, expect, pos) THEN pos
    ELSE IndexOf(src, expect, pos + 1)

\* src.index and error_on.isdisjoint are calls at depth d + 1.
skip_until(src, pos, expect, error_on, error_on_eof, d, w) ==
    LET new_pos == IndexOf(src, expect, pos)
    IN  IF ~Fits(d + 1) THEN PErr
        ELSE IF new_pos = Len(src) /\ ~StartsAt(src, expect, new_pos) /\ error_on_eof THEN PErr
        ELSE IF \E i \in (pos + 1)..new_pos : src[i] \in error_on THEN PErr
        ELSE POk(new_pos, VBool(TRUE), w)

\* skip_comment compares the character at pos with "#"; at the end of src
\* the character is None, which the comparison of strings does not take.
skip_comment(src, pos, d, w) ==
    LET char == CharAt(src, pos)
        w1 == Ran(w, "skip_comment")
    IN  IF ~Fits(d) THEN PErr
        ELSE IF ~Fits(IF char = EOF THEN d + 1 ELSE CompareDepth(w1, "skip_comment", d))
        THEN PErr
        ELSE IF char = "#"
        THEN skip_until(src, pos + 1, <<"\n">>, ILLEGAL_BASIC_STR_CHARS, FALSE, d + 1, w1)
        ELSE POk(pos, VBool(TRUE), w1)

skip_comments_and_array_ws(src, pos, d, w) ==
    LET p1 == skip_chars(src, pos, TOML_WS_AND_NEWLINE)
        c == skip_comment(src, p1, d + 1, w)
    IN  IF ~c.ok THEN PErr
        ELSE IF c.pos = pos THEN POk(pos, VBool(TRUE), c.warmup)
        ELSE Call("skip_comments_and_array_ws", <<src, c.pos, d, c.warmup>>)

\* BASIC_STR_ESCAPE_REPLACEMENTS, keyed by the character after the backslash.
EscapeIds == {"b", "t", "n", "f", "r", "\"", "\\"}
EscapeReplacement(c) ==
    CASE c = "b" -> BS
      [] c = "t" -> "\t"
      [] c = "n" -> "\n"
      [] c = "f" -> FF
      [] c = "r" -> "\r"
      [] OTHER -> c

\* parse_basic_str_escape: val is the replacement text.  The whitespace
\* escapes of a multi-line string call skip_chars; any other escape is
\* compared with "\\u" and "\\U" before it is looked up.
parse_basic_str_escape(src, pos, multiline, d, w) ==
    LET c == CharAt(src, pos + 1)
        w1 == Ran(w, "parse_basic_str_escape")
    IN  IF ~Fits(d) THEN PErr
        ELSE IF multiline /\ c \in {" ", "\t", "\n"}
        THEN IF ~Fits(d + 1) THEN PErr
             ELSE IF c /= "\n"
             THEN LET p1 == skip_chars(src, pos + 2, TOML_WS) IN
                  IF p1 >= Len(src) THEN POk(p1, <<>>, w1)
                  ELSE IF src[p1 + 1] /= "\n" THEN PErr
                  ELSE POk(skip_chars(src, p1 + 1, TOML_WS_AND_NEWLINE), <<>>, w1)
             ELSE POk(skip_chars(src, pos + 2, TOML_WS_AND_NEWLINE), <<>>, w1)
        ELSE IF ~Fits(CompareDepth(w1, "parse_basic_str_escape", d)) THEN PErr
        ELSE IF c \in EscapeIds THEN POk(pos + 2, <<EscapeReplacement(c)>>, w1)
        ELSE PErr

\* parse_basic_str_escape_multiline, the parse_escapes of a multi-line string.
parse_basic_str_escape_multiline(src, pos, d, w) ==
    Call("parse_basic_str_escape", <<src, pos, TRUE, d + 1, w>>)

\* parse_basic_str from pos (after the opening quotes); val is the string.
\* Every turn of its loop is one application: the character at pos is
\* compared with the quote and the backslash.  At a quote of a multi-line
\* string it calls src.startswith.
parse_basic_str(src, pos, multiline, result, d, w) ==
    LET char == CharAt(src, pos)
        w1 == Ran(w, "parse_basic_str")
    IN  IF ~Fits(d) THEN PErr
        ELSE IF char = EOF THEN PErr
        ELSE IF ~Fits(CompareDepth(w1, "parse_basic_str", d)) THEN PErr
        ELSE IF char = "\""
        THEN IF ~multiline THEN POk(pos + 1, result, w1)
             ELSE IF ~Fits(d + 1) THEN PErr
             ELSE IF StartsAt(src, TRIPLE_DQ, pos) THEN POk(pos + 3, result, w1)
             ELSE Call("parse_basic_str",
                       <<src, pos + 1, multiline, Append(result, char), d, w1>>)
        ELSE IF char = "\\"
        THEN LET e == IF multiline
                      THEN Call("parse_basic_str_escape_multiline", <<src, pos, d + 1, w1>>)
                      ELSE Call("parse_basic_str_escape", <<src, pos, FALSE, d + 1, w1>>) IN
             IF ~e.ok THEN PErr
             ELSE Call("parse_basic_str",
                       <<src, e.pos, multiline, result \o e.val, d, e.warmup>>)
        ELSE IF char \in (IF multiline THEN ILLEGAL_MULTILINE_BASIC_STR_CHARS
                          ELSE ILLEGAL_BASIC_STR_CHARS)
        THEN PErr
        ELSE Call("parse_basic_str",
                  <<src, pos + 1, multiline, Append(result, char), d, w1>>)

parse_one_line_basic_str(src, pos, d, w) ==
    Call("parse_basic_str", <<src, pos + 1, FALSE, <<>>, d + 1, w>>)

parse_literal_str(src, pos, d, w) ==
    LET e == skip_until(src, pos + 1, <<"'">>, ILLEGAL_BASIC_STR_CHARS, TRUE, d + 1, w)
    IN  IF ~e.ok THEN PErr ELSE POk(e.pos + 1, SubSeq(src, pos + 2, e.pos), w)

\* src.startswith is called on every path.
parse_multiline_str(src, pos, literal, d, w) ==
    LET p0 == IF StartsAt(src, <<"\n">>, pos + 3) THEN pos + 4 ELSE pos + 3
        delim == IF literal THEN "'" ELSE "\""
        lit == skip_until(src, p0, TRIPLE_SQ, ILLEGAL_MULTILINE_BASIC_STR_CHARS, TRUE,
                          d + 1, w)
        r == IF literal
             THEN IF ~lit.ok THEN PErr
                  ELSE POk(lit.pos + 3, SubSeq(src, p0 + 1, lit.pos), w)
             ELSE Call("parse_basic_str", <<src, p0, TRUE, <<>>, d + 1, w>>)
    IN  IF ~Fits(d + 1) THEN PErr
        ELSE IF ~r.ok THEN PErr
        ELSE IF CharAt(src, r.pos) /= delim THEN r
        ELSE IF CharAt(src, r.pos + 1) /= delim
        THEN POk(r.pos + 1, Append(r.val, delim), r.warmup)
        ELSE POk(r.pos + 2, r.val \o <<delim, delim>>, r.warmup)

parse_key_part(src, pos, d, w) ==
    LET char == CharAt(src, pos) IN
    IF ~Fits(d) THEN PErr
    ELSE IF char \in BareKeyChars
    THEN LET e == skip_chars(src, pos, BareKeyChars)
         IN  IF ~Fits(d + 1) THEN PErr ELSE POk(e, SubSeq(src, pos + 1, e), w)
    ELSE IF char = "'" THEN Call("parse_literal_str", <<src, pos, d + 1, w>>)
    ELSE IF char = "\"" THEN Call("parse_one_line_basic_str", <<src, pos, d + 1, w>>)
    ELSE PErr

\* The loop of parse_key after a key part: pos is past the part's whitespace;
\* d is the depth of parse_key's frame.
ParseKeyLoop(src, pos, key, d, w) ==
    IF CharAt(src, pos) /= "." THEN POk(pos, key, w)
    ELSE LET part == Call("parse_key_part",
                          <<src, skip_chars(src, pos + 1, TOML_WS), d + 1, w>>) IN
         IF ~part.ok THEN PErr
         ELSE Call("ParseKeyLoop",
                   <<src, skip_chars(src, part.pos, TOML_WS), Append(key, part.val), d,
                     part.warmup>>)

parse_key(src, pos, d, w) ==
    LET part == Call("parse_key_part", <<src, pos, d + 1, w>>) IN
    IF ~part.ok THEN PErr
    ELSE Call("ParseKeyLoop",
              <<src, skip_chars(src, part.pos, TOML_WS), <<part.val>>, d, part.warmup>>)

\* Flags: a set of [key, flag, recursive] records.  A namespace's flags are
\* found under its key and, when recursive, under any proper prefix.
IsPrefix(p, k) == Len(p) <= Len(k) /\ SubSeq(k, 1, Len(p)) = p
FlagIs(flags, key, flag) ==
    /\ key /= <<>>
    /\ \E f \in flags :
          /\ f.flag = flag
          /\ \/ f.key = key
             \/ f.recursive /\ IsPrefix(f.key, key) /\ Len(f.key) < Len(key)
FlagSet(flags, key, flag, recursive) ==
    flags \cup {[key |-> key, flag |-> flag, recursive |-> recursive]}
FlagUnsetAll(flags, key) == {f \in flags : ~IsPrefix(key, f.key)}

\* NestedDict: a table is a sequence of [k, v] pairs.  NestApply walks to the
\* nest behind key as get_or_create_nest does and applies cmd there:
\* [op |-> "touch"], [op |-> "put", stem, value] (nest[stem] = value, an error
\* when stem is in the nest) or [op |-> "append", stem] (append_nest_to_list).
Lookup(pairs, k) ==
    IF \E i \in 1..Len(pairs) : pairs[i].k = k
    THEN CHOOSE i \in 1..Len(pairs) : pairs[i].k = k
    ELSE 0
NErr == [ok |-> FALSE, pairs |-> <<>>]
NOk(pairs) == [ok |-> TRUE, pairs |-> pairs]

ApplyCmd(pairs, cmd) ==
    LET i == Lookup(pairs, cmd.stem) IN
    CASE cmd.op = "touch" -> NOk(pairs)
      [] cmd.op = "put" ->
            IF i /= 0 THEN NErr ELSE NOk(Append(pairs, [k |-> cmd.stem, v |-> cmd.value]))
      [] cmd.op = "append" ->
            IF i = 0 THEN NOk(Append(pairs, [k |-> cmd.stem, v |-> VArr(<<VTab(<<>>)>>)]))
            ELSE IF pairs[i].v.t /= "arr" THEN NErr
            ELSE NOk([pairs EXCEPT ![i].v = VArr(Append(pairs[i].v.v, VTab(<<>>)))])

NestApply(pairs, key, access_lists, cmd) ==
    IF key = <<>> THEN ApplyCmd(pairs, cmd)
    ELSE LET i == Lookup(pairs, Head(key)) IN
         IF i = 0
         THEN LET r == Call("NestApply", <<<<>>, Tail(key), access_lists, cmd>>) IN
              IF ~r.ok THEN NErr
              ELSE NOk(Append(pairs, [k |-> Head(key), v |-> VTab(r.pairs)]))
         ELSE LET v == pairs[i].v IN
              IF v.t = "tab"
              THEN LET r == Call("NestApply", <<v.v, Tail(key), access_lists, cmd>>) IN
                   IF ~r.ok THEN NErr ELSE NOk([pairs EXCEPT ![i].v = VTab(r.pairs)])
              ELSE IF v.t = "arr" /\ access_lists /\ v.v /= <<>> /\ v.v[Len(v.v)].t = "tab"
              THEN LET r == Call("NestApply", <<v.v[Len(v.v)].v, Tail(key), access_lists, cmd>>) IN
                   IF ~r.ok THEN NErr
                   ELSE NOk([pairs EXCEPT ![i].v =
                                VArr([v.v EXCEPT ![Len(v.v)] = VTab(r.pairs)])])
              ELSE NErr

\* match_to_number on a match of RE_NUMBER that ends at e: n is the int() of
\* its digits, which raises ValueError on too many.  match.group is a call at
\* depth d + 1.
match_to_number(e, negative, n, d, w) ==
    IF ~Fits(d + 1) THEN PErr
    ELSE IF ~n.ok THEN PErr
    ELSE POk(e, VInt(IF negative THEN -n.val ELSE n.val), w)

\* The number branch of parse_value, whose frame is at depth d.
\* RE_NUMBER, decimal integers only: [+-]?(?:0|[1-9][0-9]*)
parse_number(src, pos, d, w) ==
    LET signed == CharAt(src, pos) \in {"+", "-"}
        p0 == IF signed THEN pos + 1 ELSE pos
        c == CharAt(src, p0)
        e == IF c = "0" THEN p0 + 1 ELSE skip_chars(src, p0, DigitSet)
    IN  IF c \notin DigitSet THEN PErr
        ELSE match_to_number(e, CharAt(src, pos) = "-",
                             DigitsToInt(SubSeq(src, p0 + 1, e)), d + 1, w)

parse_array(src, pos, d, w) ==
    LET ws == Call("skip_comments_and_array_ws", <<src, pos + 1, d + 1, w>>) IN
    IF ~ws.ok THEN PErr
    ELSE IF StartsAt(src, <<"]">>, ws.pos) THEN POk(ws.pos + 1, VArr(<<>>), ws.warmup)
    ELSE Call("ArrayLoop", <<src, ws.pos, <<>>, d, ws.warmup>>)

\* The loop of parse_array, whose frame is at depth d.
ArrayLoop(src, pos, array, d, w) ==
    LET v == Call("parse_value", <<src, pos, d + 1, w>>) IN
    IF ~v.ok THEN PErr
    ELSE LET ws == Call("skip_comments_and_array_ws", <<src, v.pos, d + 1, v.warmup>>)
             arr == Append(array, v.val)
         IN  IF ~ws.ok THEN PErr
             ELSE IF CharAt(src, ws.pos) = "]" THEN POk(ws.pos + 1, VArr(arr), ws.warmup)
             ELSE IF CharAt(src, ws.pos) /= "," THEN PErr
             ELSE LET ws2 == Call("skip_comments_and_array_ws",
                                  <<src, ws.pos + 1, d + 1, ws.warmup>>) IN
                  IF ~ws2.ok THEN PErr
                  ELSE IF StartsAt(src, <<"]">>, ws2.pos)
                  THEN POk(ws2.pos + 1, VArr(arr), ws2.warmup)
                  ELSE Call("ArrayLoop", <<src, ws2.pos, arr, d, ws2.warmup>>)

\* NestedDict() and Flags() are the call of the class at depth d + 1 and its
\* __init__ at depth d + 2.
parse_inline_table(src, pos, d, w) ==
    LET p1 == skip_chars(src, pos + 1, TOML_WS) IN
    IF ~Fits(d + 2) THEN PErr
    ELSE IF StartsAt(src, <<"}">>, p1) THEN POk(p1 + 1, VTab(<<>>), w)
    ELSE Call("InlineLoop", <<src, p1, <<>>, {}, d, w>>)

\* The loop of parse_inline_table, whose frame is at depth d.
InlineLoop(src, pos, nested_dict, flags, d, w) ==
    LET kv == Call("parse_key_value_pair", <<src, pos, d + 1, w>>) IN
    IF ~kv.ok THEN PErr
    ELSE LET key == kv.val.key
             value == kv.val.value
             key_parent == SubSeq(key, 1, Len(key) - 1)
             n == Call("NestApply", <<nested_dict, key_parent, FALSE,
                            [op |-> "put", stem |-> key[Len(key)], value |-> value]>>)
             p1 == skip_chars(src, kv.pos, TOML_WS)
             c == CharAt(src, p1)
         IN  IF FlagIs(flags, key, "FROZEN") THEN PErr
             ELSE IF ~n.ok THEN PErr
             ELSE IF c = "}" THEN POk(p1 + 1, VTab(n.pairs), kv.warmup)
             ELSE IF c /= "," THEN PErr
             ELSE Call("InlineLoop", <<src, skip_chars(src, p1 + 1, TOML_WS), n.pairs,
                             IF value.t \in {"tab", "arr"}
                             THEN FlagSet(flags, key, "FROZEN", TRUE) ELSE flags, d,
                             kv.warmup>>)

parse_key_value_pair(src, pos, d, w) ==
    LET k == Call("parse_key", <<src, pos, d + 1, w>>) IN
    IF ~k.ok THEN PErr
    ELSE IF CharAt(src, k.pos) /= "=" THEN PErr
    ELSE LET v == Call("parse_value",
                       <<src, skip_chars(src, k.pos + 1, TOML_WS), d + 1, k.warmup>>) IN
         IF ~v.ok THEN PErr
         ELSE POk(v.pos, [key |-> k.val, value |-> v.val], v.warmup)

\* src.startswith and the match of a compiled pattern are calls at depth
\* d + 1, as is every function parse_value hands the value to.
parse_value(src, pos, d, w) ==
    LET char == CharAt(src, pos) IN
    IF ~Fits(d + 1) THEN PErr
    ELSE IF char = "\""
    THEN IF StartsAt(src, TRIPLE_DQ, pos)
         THEN LET r == Call("parse_multiline_str", <<src, pos, FALSE, d + 1, w>>)
              IN  IF r.ok THEN POk(r.pos, VStr(r.val), r.warmup) ELSE PErr
         ELSE LET r == Call("parse_one_line_basic_str", <<src, pos, d + 1, w>>)
              IN  IF r.ok THEN POk(r.pos, VStr(r.val), r.warmup) ELSE PErr
    ELSE IF char = "'"
    THEN IF StartsAt(src, TRIPLE_SQ, pos)
         THEN LET r == Call("parse_multiline_str", <<src, pos, TRUE, d + 1, w>>)
              IN  IF r.ok THEN POk(r.pos, VStr(r.val), r.warmup) ELSE PErr
         ELSE LET r == Call("parse_literal_str", <<src, pos, d + 1, w>>)
              IN  IF r.ok THEN POk(r.pos, VStr(r.val), r.warmup) ELSE PErr
    ELSE IF StartsAt(src, <<"t", "r", "u", "e">>, pos) THEN POk(pos + 4, VBool(TRUE), w)
    ELSE IF StartsAt(src, <<"f", "a", "l", "s", "e">>, pos) THEN POk(pos + 5, VBool(FALSE), w)
    ELSE IF char = "[" THEN Call("parse_array", <<src, pos, d + 1, w>>)
    ELSE IF char = "{" THEN Call("parse_inline_table", <<src, pos, d + 1, w>>)
    ELSE Call("parse_number", <<src, pos, d, w>>)

\* The parser state of loads: out.data, out.flags, the pending flags, header,
\* and the warm-up.
LoadState(pos, data, flags, pending, header, w) ==
    [ok |-> TRUE, pos |-> pos, data |-> data, flags |-> flags,
     pending |-> pending, header |-> header, warmup |-> w]
LoadErr == [ok |-> FALSE, pos |-> 0, data |-> <<>>, flags |-> {}, pending |-> {},
            header |-> <<>>]

create_dict_rule(src, pos, st, d) ==
    LET k == Call("parse_key", <<src, skip_chars(src, pos + 1, TOML_WS), d + 1, st.warmup>>)
        key == k.val
        n == Call("NestApply", <<st.data, key, TRUE, [op |-> "touch", stem |-> <<>>]>>)
    IN  IF ~k.ok THEN LoadErr
        ELSE IF FlagIs(st.flags, key, "EXPLICIT_NEST") \/ FlagIs(st.flags, key, "FROZEN")
        THEN LoadErr
        ELSE IF ~n.ok THEN LoadErr
        ELSE IF ~StartsAt(src, <<"]">>, k.pos) THEN LoadErr
        ELSE LoadState(k.pos + 1, n.pairs, FlagSet(st.flags, key, "EXPLICIT_NEST", FALSE),
                       st.pending, key, k.warmup)

create_list_rule(src, pos, st, d) ==
    LET k == Call("parse_key", <<src, skip_chars(src, pos + 2, TOML_WS), d + 1, st.warmup>>)
        key == k.val
        n == Call("NestApply", <<st.data, SubSeq(key, 1, Len(key) - 1), TRUE,
                       [op |-> "append", stem |-> key[Len(key)]]>>)
    IN  IF ~k.ok THEN LoadErr
        ELSE IF FlagIs(st.flags, key, "FROZEN") THEN LoadErr
        ELSE IF ~n.ok THEN LoadErr
        ELSE IF ~StartsAt(src, <<"]", "]">>, k.pos) THEN LoadErr
        ELSE LoadState(k.pos + 2, n.pairs,
                       FlagSet(FlagUnsetAll(st.flags, key), key, "EXPLICIT_NEST", FALSE),
                       st.pending, key, k.warmup)

key_value_rule(src, pos, st, d) ==
    LET kv == Call("parse_key_value_pair", <<src, pos, d + 1, st.warmup>>)
        key == kv.val.key
        value == kv.val.value
        abs_key_parent == st.header \o SubSeq(key, 1, Len(key) - 1)
        cont_keys == {st.header \o SubSeq(key, 1, i) : i \in 1..(Len(key) - 1)}
        n == Call("NestApply", <<st.data, abs_key_parent, TRUE,
                       [op |-> "put", stem |-> key[Len(key)], value |-> value]>>)
    IN  IF ~kv.ok THEN LoadErr
        ELSE IF \E ck \in cont_keys : FlagIs(st.flags, ck, "EXPLICIT_NEST") THEN LoadErr
        ELSE IF FlagIs(st.flags, abs_key_parent, "FROZEN") THEN LoadErr
        ELSE IF ~n.ok THEN LoadErr
        ELSE LoadState(kv.pos, n.pairs,
                       IF value.t \in {"tab", "arr"}
                       THEN FlagSet(st.flags, st.header \o key, "FROZEN", TRUE)
                       ELSE st.flags,
                       st.pending \cup cont_keys, st.header, kv.warmup)

\* The statement loop of loads, whose frame is at depth d.
LoadLoop(src, st, d) ==
    LET pos == skip_chars(src, st.pos, TOML_WS)
        char == CharAt(src, pos)
        finalized == {[key |-> k, flag |-> "EXPLICIT_NEST", recursive |-> FALSE] :
                        k \in st.pending}
        s1 == IF char \in BareKeyChars \cup {"\"", "'"}
              THEN Call("key_value_rule", <<src, pos, st, d + 1>>)
              ELSE IF char = "["
              THEN LET st1 == [st EXCEPT !.flags = @ \cup finalized, !.pending = {}] IN
                   IF CharAt(src, pos + 1) = "["
                   THEN Call("create_list_rule", <<src, pos, st1, d + 1>>)
                   ELSE Call("create_dict_rule", <<src, pos, st1, d + 1>>)
              ELSE IF char /= "#" THEN LoadErr
              ELSE [st EXCEPT !.pos = pos]
        p2 == IF char = "#" THEN pos ELSE skip_chars(src, s1.pos, TOML_WS)
        c == skip_comment(src, p2, d + 1, s1.warmup)
    IN  IF char = EOF THEN st
        ELSE IF char = "\n" THEN Call("LoadLoop", <<src, [st EXCEPT !.pos = pos + 1], d>>)
        ELSE IF ~s1.ok THEN LoadErr
        ELSE IF ~c.ok THEN LoadErr
        ELSE IF c.pos >= Len(src) THEN [s1 EXCEPT !.pos = c.pos, !.warmup = c.warmup]
        ELSE IF src[c.pos + 1] /= "\n" THEN LoadErr
        ELSE Call("LoadLoop",
                  <<src, [s1 EXCEPT !.pos = c.pos + 1, !.warmup = c.warmup], d>>)

\* The dispatcher: the function named f applied to the arguments args.
Call(f, args) ==
    CASE f = "skip_comments_and_array_ws" ->
            skip_comments_and_array_ws(args[1], args[2], args[3], args[4])
      [] f = "parse_basic_str_escape" ->
            parse_basic_str_escape(args[1], args[2], args[3], args[4], args[5])
      [] f = "parse_basic_str_escape_multiline" ->
            parse_basic_str_escape_multiline(args[1], args[2], args[3], args[4])
      [] f = "parse_basic_str" ->
            parse_basic_str(args[1], args[2], args[3], args[4], args[5], args[6])
      [] f = "parse_one_line_basic_str" ->
            parse_one_line_basic_str(args[1], args[2], args[3], args[4])
      [] f = "parse_literal_str" -> parse_literal_str(args[1], args[2], args[3], args[4])
      [] f = "parse_multiline_str" ->
            parse_multiline_str(args[1], args[2], args[3], args[4], args[5])
      [] f = "parse_key_part" -> parse_key_part(args[1], args[2], args[3], args[4])
      [] f = "ParseKeyLoop" -> ParseKeyLoop(args[1], args[2], args[3], args[4], args[5])
      [] f = "parse_key" -> parse_key(args[1], args[2], args[3], args[4])
      [] f = "NestApply" -> NestApply(args[1], args[2], args[3], args[4])
      [] f = "parse_number" -> parse_number(args[1], args[2], args[3], args[4])
      [] f = "parse_array" -> parse_array(args[1], args[2], args[3], args[4])
      [] f = "ArrayLoop" -> ArrayLoop(args[1], args[2], args[3], args[4], args[5])
      [] f = "parse_inline_table" -> parse_inline_table(args[1], args[2], args[3], args[4])
      [] f = "InlineLoop" ->
            InlineLoop(args[1], args[2], args[3], args[4], args[5], args[6])
      [] f = "parse_key_value_pair" ->
            parse_key_value_pair(args[1], args[2], args[3], args[4])
      [] f = "parse_value" -> parse_value(args[1], args[2], args[3], args[4])
      [] f = "create_dict_rule" -> create_dict_rule(args[1], args[2], args[3], args[4])
      [] f = "create_list_rule" -> create_list_rule(args[1], args[2], args[3], args[4])
      [] f = "key_value_rule" -> key_value_rule(args[1], args[2], args[3], args[4])
      [] f = "LoadLoop" -> LoadLoop(args[1], args[2], args[3])

\* tomllib.loads called at depth d with the warm-up w: [ok, data, warmup];
\* ok = FALSE stands for TOMLDecodeError and for RecursionError.
\* Output(NestedDict(), Flags()) is the call of the class at depth d + 1, its
\* __new__ at d + 2 and the tuple's at d + 3.
tomllib_loads(s, d, w) ==
    IF ~Fits(d + 3) THEN LoadErr
    ELSE Call("LoadLoop", <<ReplaceCRLF(s), LoadState(0, <<>>, {}, {}, <<>>, w), d>>)

----------------------------------------------------------------------------
(* TOML parsing (values and file validation).                              *)

\* parse_toml_value: ok = FALSE stands for the ValueError.
\* data["__k__"] of the parsed snippet r, and the warm-up the parse leaves.
SnippetValue(r) ==
    IF ~r.ok THEN [ok |-> FALSE, val |-> VBool(FALSE)]
    ELSE [ok |-> TRUE, val |-> r.data[Lookup(r.data, <<"_", "_", "k", "_", "_">>)].v,
          warmup |-> r.warmup]

parse_toml_value(value_src, d, w) ==
    SnippetValue(tomllib_loads(<<"_", "_", "k", "_", "_", " ", "=", " ">>
                               \o value_src \o <<"\n">>, d + 1, w))

\* validate_toml_document: ok = TRUE when no ValueError is raised, and the
\* warm-up the parse leaves.
validate_toml_document(text, d, w) == tomllib_loads(text, d + 1, w)

----------------------------------------------------------------------------
(* Lines of a text, and the top-of-file comment replacement.               *)

\* The line boundaries of str.splitlines among the modelled characters.
LineBreaks == {"\n", "\r", FF}

\* text.splitlines(keepends=True); cur is the line being collected.
RECURSIVE SplitKeep(_, _, _)
SplitKeep(text, i, cur) ==
    IF i > Len(text) THEN (IF cur = <<>> THEN <<>> ELSE <<cur>>)
    ELSE IF text[i] = "\r" /\ i + 1 <= Len(text) /\ text[i + 1] = "\n"
    THEN <<cur \o <<"\r", "\n">>>> \o SplitKeep(text, i + 2, <<>>)
    ELSE IF text[i] \in LineBreaks
    THEN <<Append(cur, text[i])>> \o SplitKeep(text, i + 1, <<>>)
    ELSE SplitKeep(text, i + 1, Append(cur, text[i]))

splitlines_keepends(text) == SplitKeep(text, 1, <<>>)

\* The line without its line ending.
Chomp(line) ==
    IF EndsWith(line, <<"\r", "\n">>) THEN SubSeq(line, 1, Len(line) - 2)
    ELSE IF line /= <<>> /\ line[Len(line)] \in LineBreaks
    THEN SubSeq(line, 1, Len(line) - 1)
    ELSE line

\* text.splitlines()
splitlines(text) ==
    LET ls == splitlines_keepends(text) IN [i \in 1..Len(ls) |-> Chomp(ls[i])]

\* The first loop left out: the leading run of blank and comment lines stays.
TopRunStay(lines_, i) == i

\* The first loop of replace_top_comment_block: the 0-based index of the first
\* line that is neither blank nor a comment.
RECURSIVE TopRunEnd(_, _)
TopRunEnd(lines_, i) ==
    IF i < Len(lines_) /\ _is_comment_or_blank(LineAt(lines_, i))
    THEN TopRunEnd(lines_, i + 1) ELSE i

replace_top_comment_block(text, new_text) ==
    LET lines_ == splitlines_keepends(text)
        i == TopRunEnd(lines_, 0)
        raw == splitlines(new_text)
        new_lines == [j \in 1..Len(raw) |->
                        IF Strip(raw[j]) = <<>> THEN <<"#", "\n">>
                        ELSE <<"#", " ">> \o RStrip(raw[j]) \o <<"\n">>]
                     \o <<<<"\n">>>>
    IN  IF new_text = NoComment THEN Flatten(From(lines_, i))
        ELSE Flatten(new_lines \o From(lines_, i))

----------------------------------------------------------------------------
(* Patching operations.  Each returns [exit, lines]: exit is NoExit when   *)
(* the operation returned its new line list, the code of sys.exit when it  *)
(* exited, and Uncaught when it raised an exception nothing catches (lines *)
(* is then the unchanged input, which nothing reads).                      *)

NoExit == -1

\* The exit of a request whose loop body let an exception out of main: the
\* interpreter prints the traceback and the process ends with status 1.
Uncaught == -2
ExitStatus(exit) == IF exit = Uncaught THEN 1 ELSE exit

\* apply_set's new line from its two sides.
NewLine(lhs, rhs, comment) ==
    IF comment /= NoComment /\ comment /= <<>>
    THEN lhs \o <<" ", "=", " ">> \o rhs \o <<" ", "#", " ">> \o comment \o <<"\n">>
    ELSE lhs \o <<" ", "=", " ">> \o rhs \o <<"\n">>

SetPatch(path, value_src, value_obj, comment) ==
    [path |-> path, value_src |-> value_src, value_obj |-> value_obj, comment |-> comment]

ExitOf(status) == IF status = "KeyError" THEN 2 ELSE 3

\* SetBlock with the slice one line short, lines[start:end] = [new_line]: the
\* last line of the block stays.
SetBlockShort(lines_, setp, blk, rhs) ==
    LET lhs == Join(<<".">>, [i \in 1..Len(blk.ksegs) |-> _format_key_segment(blk.ksegs[i])])
    IN  IF blk.status /= "ok" THEN [exit |-> ExitOf(blk.status), lines |-> lines_]
        ELSE IF ~rhs.ok THEN [exit |-> Uncaught, lines |-> lines_]
        ELSE [exit |-> NoExit,
              lines |-> Upto(lines_, blk.start)
                        \o <<NewLine(lhs, rhs.text, setp.comment)>>
                        \o From(lines_, blk.end)]

\* apply_set once the assignment is looked up: blk is the block found or the
\* exception raised, rhs what format_toml_value(setp.value_obj) gives.  The
\* RecursionError of format_toml_value is caught neither here nor in main.
SetBlock(lines_, setp, blk, rhs) ==
    LET lhs == Join(<<".">>, [i \in 1..Len(blk.ksegs) |-> _format_key_segment(blk.ksegs[i])])
    IN  IF blk.status /= "ok" THEN [exit |-> ExitOf(blk.status), lines |-> lines_]
        ELSE IF ~rhs.ok THEN [exit |-> Uncaught, lines |-> lines_]
        ELSE [exit |-> NoExit,
              lines |-> Upto(lines_, blk.start)
                        \o <<NewLine(lhs, rhs.text, setp.comment)>>
                        \o From(lines_, blk.end + 1)]

\* apply_set as main calls it: its frame is at depth MainFrame + 1 and that of
\* format_toml_value at MainFrame + 2.
apply_set(lines_, setp) ==
    SetBlock(lines_, setp,
             find_assignment_block_by_full_path(lines_, index_headers(lines_), setp.path),
             format_toml_value(setp.value_obj, MainFrame + 2))

\* apply_delete_key once the assignment is looked up.
DeleteBlock(lines_, blk) ==
    IF blk.status /= "ok" THEN [exit |-> ExitOf(blk.status), lines |-> lines_]
    ELSE [exit |-> NoExit,
          lines |-> Upto(lines_, blk.start) \o From(lines_, blk.end + 1)]

apply_delete_key(lines_, delp) ==
    DeleteBlock(lines_,
                find_assignment_block_by_full_path(lines_, index_headers(lines_), delp.path))

\* apply_delete_section once the section is looked up.
DeleteSection(lines_, sec) ==
    IF sec.status /= "ok" THEN [exit |-> ExitOf(sec.status), lines |-> lines_]
    ELSE IF sec.header.kind = "root" THEN [exit |-> 4, lines |-> lines_]
    ELSE [exit |-> NoExit,
          lines |-> Upto(lines_, sec.header.start_line) \o From(lines_, sec.end + 1)]

apply_delete_section(lines_, delsec) ==
    DeleteSection(lines_, find_section_block(index_headers(lines_), delsec.path))

----------------------------------------------------------------------------
(* The bounded inputs: documents, requests, top comments.                  *)

\* k = 1\n
L_k1 == <<"k", " ", "=", " ", "1", "\n">>
\* [a]\n
L_a == <<"[", "a", "]", "\n">>
\* [[g]]\n
L_g == <<"[", "[", "g", "]", "]", "\n">>
\* # c\n
L_c == <<"#", " ", "c", "\n">>
\* \n
L_blank == <<"\n">>
\* [a.b]\n
L_ab == <<"[", "a", ".", "b", "]", "\n">>
\* m = [\n
L_m0 == <<"m", " ", "=", " ", "[", "\n">>
\*   1, # ]\n
L_m1 == <<" ", " ", "1", ",", " ", "#", " ", "]", "\n">>
\*   2,\n
L_m2 == <<" ", " ", "2", ",", "\n">>
\* ]\n
L_m3 == <<"]", "\n">>

\* The blocks documents are built from: an assignment (of the root, or of the
\* section the block follows), a table with a key, an array-of-table occurrence
\* with a key, a standalone comment and blank line, a sub-table with a key, and
\* a multi-line array whose inner comment holds a closing bracket.
Blocks ==
    << <<L_k1>>, <<L_a, L_k1>>, <<L_g, L_k1>>, <<L_c, L_blank>>, <<L_ab, L_k1>>,
       <<L_m0, L_m1, L_m2, L_m3>> >>

\* The largest number of blocks in a document.
MaxBlocks == 2
\* The largest number of requests in a command line of several requests.
MaxReq == 2

BlockSeqs == UNION {[1..n -> 1..Len(Blocks)] : n \in 0..MaxBlocks}
DocLines(bs) == Flatten([i \in 1..Len(bs) |-> Blocks[bs[i]]])
\* An input file whose content, as it stands on disk, is these lines.
File(lines_) == [readable |-> TRUE, text |-> Flatten(lines_)]
Unreadable == [readable |-> FALSE, text |-> <<>>]
Docs == {File(DocLines(bs)) : bs \in BlockSeqs}

\* The documents that command lines of several requests are run on.
CoreDocs ==
    {File(<<L_c, L_k1, L_a, L_k1, L_c, L_blank, L_g, L_k1, L_g, L_k1>>),
     File(<<L_a, L_k1, L_m0, L_m1, L_m2, L_m3, L_ab, L_k1>>)}

\* k = 2
S_k == <<"k", " ", "=", " ", "2">>
\* a.k = 2 # n
S_ak == <<"a", ".", "k", " ", "=", " ", "2", " ", "#", " ", "n">>
\* g.k = 2
S_gk == <<"g", ".", "k", " ", "=", " ", "2">>
\* g[0].k = true
S_g0k == <<"g", "[", "0", "]", ".", "k", " ", "=", " ", "t", "r", "u", "e">>
\* g[1].k = "x"
S_g1k == <<"g", "[", "1", "]", ".", "k", " ", "=", " ", "\"", "x", "\"">>
\* m = [1, 2]
S_m == <<"m", " ", "=", " ", "[", "1", ",", " ", "2", "]">>
\* a.b.k = { k = 1 }
S_abk == <<"a", ".", "b", ".", "k", " ", "=", " ", "{", " ", "k", " ", "=", " ", "1", " ", "}">>
\* a..k = 2
S_dots == <<"a", ".", ".", "k", " ", "=", " ", "2">>
\* "a.k = 2
S_quote == <<"\"", "a", ".", "k", " ", "=", " ", "2">>
\*  = 2
S_empty == <<" ", "=", " ", "2">>
\* a.k = ]
S_badval == <<"a", ".", "k", " ", "=", " ", "]">>
\* k = "\f"
S_ff == <<"k", " ", "=", " ", "\"", "\\", "f", "\"">>
\* k
P_k == <<"k">>
\* a.k
P_ak == <<"a", ".", "k">>
\* g.k
P_gk == <<"g", ".", "k">>
\* g[0].k
P_g0k == <<"g", "[", "0", "]", ".", "k">>
\* g[1].k
P_g1k == <<"g", "[", "1", "]", ".", "k">>
\* m
P_m == <<"m">>
\* a.b.k
P_abk == <<"a", ".", "b", ".", "k">>
\* a..k
P_dots == <<"a", ".", ".", "k">>
\* "a.k
P_quote == <<"\"", "a", ".", "k">>
\* the empty string
P_empty == <<>>
\* a
P_a == <<"a">>
\* g
P_g == <<"g">>
\* g[0]
P_g0 == <<"g", "[", "0", "]">>
\* g[1]
P_g1 == <<"g", "[", "1", "]">>
\* a.b
P_ab == <<"a", ".", "b">>
\* a..b
P_dotsb == <<"a", ".", ".", "b">>
\* "a.b
P_quoteb == <<"\"", "a", ".", "b">>

\* [[h]]\n
L_h == <<"[", "[", "h", "]", "]", "\n">>

\* Documents with values of several lines and with interleaved arrays of
\* tables, run with one request at most.
\* [[g]] and [[h]] in turn, with a standalone comment before the last.
D_gh == <<L_g, L_k1, L_h, L_k1, L_c, L_blank, L_g, L_h, L_k1>>
\*   [1, 2]\n
L_in == <<" ", " ", "[", "1", ",", " ", "2", "]", "\n">>
\* [a], an array of several lines with the element [1, 2] on a line of its
\* own, and a key after it.
D_arr == <<L_a, L_m0, L_in, L_m3, L_k1>>
\* s = """\n
L_s0 == <<"s", " ", "=", " ", "\"", "\"", "\"", "\n">>
\* k = 2\n
L_k2 == <<"k", " ", "=", " ", "2", "\n">>
\* """\n
L_s3 == <<"\"", "\"", "\"", "\n">>
\* A string of several lines that holds the line k = 2, and then the key k.
D_str == <<L_s0, L_k2, L_s3, L_k1>>
ExtraDocs == {File(D_gh), File(D_arr), File(D_str)}

\* Files with CR LF and with CR line endings: a comment, an empty line and
\* k = 1, each ended with CR LF; k = 1 and [a], each ended with CR; and
\* [a] ended with LF, k = 1 ended with CR LF.
L_CR == <<"\r">>
D_crlf == <<<<"#", " ", "c", "\r", "\n">>, <<"\r", "\n">>, <<"k", " ", "=", " ", "1", "\r", "\n">>>>
D_cr == <<<<"k", " ", "=", " ", "1">>, L_CR, <<"[", "a", "]">>, L_CR>>
D_mixed == <<L_a, <<"k", " ", "=", " ", "1", "\r", "\n">>>>
CRDocs == {File(D_crlf), File(D_cr), File(D_mixed)}

Request(opt, payload) == [opt |-> opt, payload |-> payload]

SetPayloads ==
    {S_k, S_ak, S_gk, S_g0k, S_g1k, S_m, S_abk, S_dots, S_quote, S_empty, S_badval, S_ff}
KeyPaths == {P_k, P_ak, P_gk, P_g0k, P_g1k, P_m, P_abk, P_dots, P_quote, P_empty}
SectionPaths == {P_a, P_g, P_g0, P_g1, P_ab, P_empty, P_dotsb, P_quoteb}

Requests ==
    {Request("set", p) : p \in SetPayloads}
    \cup {Request("delete-key", p) : p \in KeyPaths}
    \cup {Request("delete-section", p) : p \in SectionPaths}

\* h[1].k = 2
S_h1k == <<"h", "[", "1", "]", ".", "k", " ", "=", " ", "2">>
\* The requests the documents of ExtraDocs are run with.
ExtraRequests ==
    {Request("set", S_h1k), Request("set", S_g1k), Request("set", S_ak),
     Request("set", S_k), Request("delete-key", P_k)}

\* The requests that command lines of several requests are made of.
CoreRequests ==
    {Request("set", S_ak), Request("set", S_g1k), Request("set", S_gk),
     Request("set", S_badval), Request("delete-key", P_ak), Request("delete-key", P_m),
     Request("delete-section", P_a), Request("delete-section", P_g0)}

Argvs(pool, n) == UNION {[1..m -> pool] : m \in 0..n}

\* t
T_t == <<"t">>
TopComments == {NoComment, T_t}

\* The replacement texts the top comment is replaced with on its own: t; t with
\* a trailing space; the empty text; a line of one space, the line "t " and the
\* line u without a line ending; a and b with a CR LF between them.
T_ts == <<"t", " ">>
T_e == <<>>
T_btu == <<" ", "\n", "t", " ", "\n", "u">>
T_ab == <<"a", "\r", "\n", "b">>
TopTexts == {T_t, T_ts, T_e, T_btu, T_ab}

----------------------------------------------------------------------------
(* main().                                                                 *)

Running == -1

\* argparse's append actions: the positions in argv of the requests of one
\* option, in the order given (args.sets, args.del_keys, args.del_secs).
RECURSIVE PositionsFrom(_, _, _)
PositionsFrom(argv_, opt, i) ==
    IF i > Len(argv_) THEN <<>>
    ELSE IF argv_[i].opt = opt THEN <<i>> \o PositionsFrom(argv_, opt, i + 1)
    ELSE PositionsFrom(argv_, opt, i + 1)
Positions(argv_, opt) == PositionsFrom(argv_, opt, 1)

\* The requests taken up in the order given.
ScheduleAsGiven(argv_) == [i \in 1..Len(argv_) |-> i]

\* The order in which main's three loops take the requests up: the positions
\* in argv of all sets, then of all delete-keys, then of all delete-sections.
Schedule(argv_) ==
    Positions(argv_, "set") \o Positions(argv_, "delete-key")
    \o Positions(argv_, "delete-section")

\* The request main takes up next, when there is one.
HasNext == pc = "apply" /\ step < Len(Schedule(argv))
NextPos == Schedule(argv)[step + 1]
NextReq == argv[NextPos]

\* What trace records of a request taken up: its position in argv, the lines
\* before it, the lines after it (the lines before it when it failed), how it
\* ended, and the warm-up it met.
Entry(pos, before, after, exit, w) ==
    [pos |-> pos, before |-> before, after |-> after, exit |-> exit, warmup |-> w]

\* How a request's loop body ends: with sys.exit, return or an uncaught
\* exception (exit /= NoExit) or with the new lines.
Finish(r) ==
    /\ trace' = Append(trace, Entry(NextPos, lines, r.lines, r.exit, co_warmup))
    /\ IF r.exit /= NoExit
       THEN /\ exit_code' = ExitStatus(r.exit)
            /\ pc' = "exited"
            /\ UNCHANGED <<lines, step>>
       ELSE /\ lines' = r.lines
            /\ step' = step + 1
            /\ UNCHANGED <<exit_code, pc>>
    /\ UNCHANGED <<argv, top_comment, input, output, fv>>

\* How the body of the loop over args.sets ends, r, with the warm-up w it
\* leaves.
SetDone(r, w) == [exit |-> r.exit, lines |-> r.lines, warmup |-> w]

\* The body of the loop over args.sets for one spec, from its parsed path p
\* and parsed value v on: return 4 where either raised ValueError.
SetParsed(lines_, e, p, v, w) ==
    IF ~p.ok \/ ~v.ok THEN [exit |-> 4, lines |-> lines_, warmup |-> w]
    ELSE SetDone(apply_set(lines_, SetPatch(p.segs, e.value_src, v.val, e.comment)),
                 v.warmup)

\* The body of the loop over args.sets for one spec, met with the warm-up w.
SetOutcome(lines_, spec, w) ==
    LET e == split_set_expression(spec)
    IN  IF ~e.ok THEN [exit |-> 4, lines |-> lines_, warmup |-> w]
        ELSE SetParsed(lines_, e, parse_path_with_indices(e.path),
                       parse_toml_value(e.value_src, MainFrame + 1, w), w)

\* The body of the loop over args.del_keys from the parsed path p on: return 4
\* where parse_path_with_indices raised.
DeleteKeyParsed(lines_, p) ==
    IF ~p.ok THEN [exit |-> 4, lines |-> lines_]
    ELSE apply_delete_key(lines_, [path |-> p.segs])

\* The body of the loop over args.del_keys for one path.
DeleteKeyOutcome(lines_, pth) ==
    DeleteKeyParsed(lines_, parse_path_with_indices(pth))

\* The body of the loop over args.del_secs from the parsed path p on: return 4
\* where parse_path_with_indices raised.
DeleteSectionParsed(lines_, p) ==
    IF ~p.ok THEN [exit |-> 4, lines |-> lines_]
    ELSE apply_delete_section(lines_, [path |-> p.segs])

\* The body of the loop over args.del_secs for one path.
DeleteSectionOutcome(lines_, pth) ==
    DeleteSectionParsed(lines_, parse_path_with_indices(pth))

\* f.read() of the input file, opened in text mode with universal newlines:
\* the content with every CR LF and every other CR turned into LF.
RECURSIVE read_text(_)
read_text(content) ==
    IF content = <<>> THEN <<>>
    ELSE IF content[1] = "\r" /\ Len(content) >= 2 /\ content[2] = "\n"
    THEN <<"\n">> \o read_text(SubSeq(content, 3, Len(content)))
    ELSE IF content[1] = "\r" THEN <<"\n">> \o read_text(Tail(content))
    ELSE <<content[1]>> \o read_text(Tail(content))

\* main from the text it has read on, v being what validate_toml_document
\* gives for it: replace the top comment, split.
Loaded(text, v) ==
    IF ~v.ok
    THEN /\ exit_code' = 1
         /\ pc' = "exited"
         /\ UNCHANGED <<lines, co_warmup>>
    ELSE /\ lines' = splitlines_keepends(
                        IF top_comment /= NoComment
                        THEN replace_top_comment_block(text, top_comment)
                        ELSE text)
         /\ co_warmup' = v.warmup
         /\ pc' = "apply"
         /\ UNCHANGED exit_code

\* main up to its loops: read, validate, replace the top comment, split.
Load ==
    /\ pc = "start"
    /\ IF ~input.readable
       THEN /\ exit_code' = 1
            /\ pc' = "exited"
            /\ UNCHANGED <<lines, co_warmup>>
       ELSE Loaded(read_text(input.text),
                   validate_toml_document(read_text(input.text), MainFrame + 1, co_warmup))
    /\ UNCHANGED <<argv, top_comment, input, step, output, trace, fv>>

\* The end of the body of the loop over args.sets.
FinishSet(r) ==
    /\ Finish(r)
    /\ co_warmup' = r.warmup

ApplySet ==
    /\ HasNext
    /\ NextReq.opt = "set"
    /\ FinishSet(SetOutcome(lines, NextReq.payload, co_warmup))

ApplyDeleteKey ==
    /\ HasNext
    /\ NextReq.opt = "delete-key"
    /\ Finish(DeleteKeyOutcome(lines, NextReq.payload))
    /\ UNCHANGED co_warmup

ApplyDeleteSection ==
    /\ HasNext
    /\ NextReq.opt = "delete-section"
    /\ Finish(DeleteSectionOutcome(lines, NextReq.payload))
    /\ UNCHANGED co_warmup

\* The output file is written, after the last loop: open(args.output, "w")
\* empties or creates the file, f.write and the close of the with block put
\* out_text into it, and main returns 0.
WriteOutput ==
    /\ pc = "apply"
    /\ step = Len(Schedule(argv))
    /\ output' = [written |-> TRUE, text |-> Flatten(lines)]
    /\ exit_code' = 0
    /\ pc' = "exited"
    /\ UNCHANGED <<argv, top_comment, input, lines, step, co_warmup, trace, fv>>

\* open(args.output, "w") raises: the output file is as it was, and main
\* returns 5.
WriteFails ==
    /\ pc = "apply"
    /\ step = Len(Schedule(argv))
    /\ exit_code' = 5
    /\ pc' = "exited"
    /\ UNCHANGED <<argv, top_comment, input, lines, step, output, co_warmup, trace, fv>>

\* The file is opened, and so emptied or created, and f.write or the close of
\* the with block raises when n characters of out_text have reached it: the
\* same try catches it, and main returns 5.
WriteBreaksOff ==
    /\ pc = "apply"
    /\ step = Len(Schedule(argv))
    /\ \E n \in 0..Len(Flatten(lines)) :
          output' = [written |-> TRUE, text |-> SubSeq(Flatten(lines), 1, n)]
    /\ exit_code' = 5
    /\ pc' = "exited"
    /\ UNCHANGED <<argv, top_comment, input, lines, step, co_warmup, trace, fv>>

\* fv while no value is under test.
NoValue == [stage |-> "idle", val |-> VBool(FALSE), text |-> <<>>,
            back |-> [ok |-> FALSE, val |-> VBool(FALSE)]]

Init ==
    /\ \/ /\ input \in Docs
          /\ argv \in Argvs(Requests, 1)
          /\ top_comment = NoComment
       \/ /\ input \in CoreDocs
          /\ argv \in Argvs(CoreRequests, MaxReq)
          /\ top_comment \in TopComments
       \/ /\ input \in Docs \cup CRDocs
          /\ argv = <<>>
          /\ top_comment \in TopTexts
       \/ /\ input \in CRDocs
          /\ argv \in Argvs(ExtraRequests, 1)
          /\ top_comment = NoComment
       \/ /\ input \in ExtraDocs
          /\ argv \in Argvs(ExtraRequests, 1)
          /\ top_comment = NoComment
       \/ /\ input = Unreadable
          /\ argv = <<>>
          /\ top_comment = NoComment
    /\ pc = "start"
    /\ lines = <<>>
    /\ step = 0
    /\ exit_code = Running
    /\ co_warmup = NoWarmup
    /\ output = [written |-> FALSE, text |-> <<>>]
    /\ trace = <<>>
    /\ fv = NoValue

Next ==
    \/ Load
    \/ ApplySet
    \/ ApplyDeleteKey
    \/ ApplyDeleteSection
    \/ WriteOutput
    \/ WriteFails
    \/ WriteBreaksOff

Spec == Init /\ [][Next]_vars

----------------------------------------------------------------------------
(* The formatter on its own: a structural value is emitted by              *)
(* format_toml_value, and the text is parsed back by parse_toml_value, as  *)
(* apply_set and the loop over args.sets use the two.                      *)

\* The longest string, the largest integer magnitude and the longest array or
\* table of the values under test.
MaxStrLen == 2
MaxInt == 11
MaxItems == 2

StrChars == {"a", " ", "\"", "\\", "\t", "\n", "\r", BS, FF, DEL}
Strings == UNION {[1..n -> StrChars] : n \in 0..MaxStrLen}
Scalars ==
    {VBool(b) : b \in BOOLEAN} \cup {VInt(i) : i \in (-MaxInt)..MaxInt}
    \cup {VStr(str) : str \in Strings}

\* The items of the arrays and tables under test, and the tables' keys.
Items ==
    {VBool(TRUE), VInt(-MaxInt), VStr(<<"a", "\"">>), VArr(<<>>), VArr(<<VInt(1)>>),
     VTab(<<>>), VTab(<<[k |-> <<"k">>, v |-> VStr(<<"\\">>)]>>)}
Keys == {<<"k">>, <<"a", " ">>, <<>>, <<"-", "\"">>}
Arrays == {VArr(items) : items \in UNION {[1..n -> Items] : n \in 0..MaxItems}}
Tables ==
    {VTab(pairs) : pairs \in
        {ps \in UNION {[1..n -> [k : Keys, v : Items]] : n \in 0..MaxItems} :
            \A i, j \in 1..Len(ps) : ps[i].k = ps[j].k => i = j}}
Values == Scalars \cup Arrays \cup Tables

InitFmt ==
    /\ fv \in {[NoValue EXCEPT !.stage = "value", !.val = v] : v \in Values}
    /\ input = Unreadable
    /\ argv = <<>>
    /\ top_comment = NoComment
    /\ pc = "format"
    /\ lines = <<>>
    /\ step = 0
    /\ exit_code = Running
    /\ co_warmup = NoWarmup
    /\ output = [written |-> FALSE, text |-> <<>>]
    /\ trace = <<>>

\* fv once format_toml_value gave r.
Formatted(r) ==
    [fv EXCEPT !.stage = IF r.ok THEN "formatted" ELSE "raised", !.text = r.text]

\* apply_set's rhs = format_toml_value(setp.value_obj)
Format ==
    /\ fv.stage = "value"
    /\ fv' = Formatted(format_toml_value(fv.val, MainFrame + 2))
    /\ UNCHANGED <<argv, top_comment, input, pc, lines, step, exit_code, output,
                   co_warmup, trace>>

\* fv and the warm-up once parse_toml_value gave r for the emitted text.
Reparsed(r) ==
    /\ fv' = [fv EXCEPT !.stage = "parsed", !.back = [ok |-> r.ok, val |-> r.val]]
    /\ co_warmup' = IF r.ok THEN r.warmup ELSE co_warmup

\* value_obj = parse_toml_value(value_src) on the emitted text
Reparse ==
    /\ fv.stage = "formatted"
    /\ Reparsed(parse_toml_value(fv.text, MainFrame + 1, co_warmup))
    /\ UNCHANGED <<argv, top_comment, input, pc, lines, step, exit_code, output, trace>>

NextFmt ==
    \/ Format
    \/ Reparse

SpecFmt == InitFmt /\ [][NextFmt]_vars

----------------------------------------------------------------------------
(* The properties.  They are stated over trace, the record of the requests *)
(* a run has taken up, and look every target up again in the lines the     *)
(* request found.                                                          *)

Min(S) == CHOOSE x \in S : \A y \in S : x <= y
Max(S) == CHOOSE x \in S : \A y \in S : x >= y
Range(f) == {f[i] : i \in DOMAIN f}

\* The request of the n-th trace entry as main took it up: its option, its
\* payload and the warm-up it met.
ReqAt(n) ==
    [opt |-> argv[trace[n].pos].opt, payload |-> argv[trace[n].pos].payload,
     warmup |-> trace[n].warmup]

\* The value of the payload of a set request as main finds it,
\* parse_toml_value called from main's frame with the warm-up the request
\* met.
ParsedValue(r) ==
    parse_toml_value(split_set_expression(r.payload).value_src, MainFrame + 1, r.warmup)

\* The validity of a document as main finds it: validate_toml_document
\* called from main's frame, the first the process parses.
Validates(text) == validate_toml_document(text, MainFrame + 1, NoWarmup).ok

\* The path text of a request as parse_path_with_indices reads it.
ParsedPath(r) ==
    IF r.opt = "set" THEN parse_path_with_indices(split_set_expression(r.payload).path)
    ELSE parse_path_with_indices(r.payload)

\* What apply_set's format_toml_value gives for the value of a set payload.
Emitted(r) == format_toml_value(ParsedValue(r).val, MainFrame + 2)

\* A set payload is well formed: the expression splits, the path and the value
\* parse, and the value is one format_toml_value emits.
SetParses(r) ==
    /\ split_set_expression(r.payload).ok
    /\ ParsedPath(r).ok
    /\ ParsedValue(r).ok
    /\ Emitted(r).ok

\* The path a request names.
PathOf(r) == ParsedPath(r).segs

\* The text main has read from the input file.
TextRead == read_text(input.text)

\* A request that edits a key, with a well-formed payload.
IsKeyEdit(r) ==
    (r.opt = "set" /\ SetParses(r)) \/ (r.opt = "delete-key" /\ ParsedPath(r).ok)

\* The assignment block a path resolves to in lines_.
Resolve(lines_, path) ==
    find_assignment_block_by_full_path(lines_, index_headers(lines_), path)

\* The line a set writes for the key segments ksegs: key = value, and the
\* comment when a non-empty one is given.
SetLine(ksegs, r) ==
    LET e == split_set_expression(r.payload)
    IN  Join(<<".">>, [i \in 1..Len(ksegs) |-> _format_key_segment(ksegs[i])])
        \o <<" ", "=", " ">> \o Emitted(r).text
        \o (IF e.comment /= NoComment /\ e.comment /= <<>>
            THEN <<" ", "#", " ">> \o e.comment ELSE <<>>)
        \o <<"\n">>

\* The headers of lines_ of one kind with the dotted path p.
HeadersOf(lines_, kind, p) ==
    {h \in Range(index_headers(lines_)) : h.kind = kind /\ h.path = p}

\* The key that line j of lines_ assigns, <<>> when it assigns none.
KeyAt(lines_, j) ==
    LET line == LineAt(lines_, j)
        eq_pos == _find_equals_outside_quotes(line)
    IN  IF LStrip(line) = <<>> \/ LStrip(line)[1] \in {"#", "["} \/ eq_pos = -1 THEN <<>>
        ELSE _parse_assignment_key_segments(Upto(line, eq_pos))

\* The lines among those header h owns that assign the key field.
FieldLines(lines_, h, field) ==
    {j \in (h.start_line + 1)..h.end_line : KeyAt(lines_, j) = <<field>>}

\* C1: a set whose path resolves unambiguously to a span [start, end] returns
\* the lines before start, then the one line key = value (with the comment
\* when a non-empty one is given), then the lines after end; every line outside
\* the span is the input's.
SetIsLocal ==
    \A n \in 1..Len(trace) :
        LET en == trace[n]
            r == ReqAt(n)
            blk == Resolve(en.before, PathOf(r))
            width == blk.end - blk.start
        IN  (r.opt = "set" /\ SetParses(r) /\ blk.status = "ok") =>
                /\ en.exit = NoExit
                /\ Len(en.after) = Len(en.before) - width
                /\ \A i \in 0..(blk.start - 1) : LineAt(en.after, i) = LineAt(en.before, i)
                /\ LineAt(en.after, blk.start) = SetLine(blk.ksegs, r)
                /\ \A i \in (blk.end + 1)..(Len(en.before) - 1) :
                      LineAt(en.after, i - width) = LineAt(en.before, i)

\* A set has replaced a span of several lines that has lines before and after.
SetIsLocalWitness ==
    \E n \in 1..Len(trace) :
        LET en == trace[n]
            r == ReqAt(n)
            blk == Resolve(en.before, PathOf(r))
        IN  /\ r.opt = "set" /\ SetParses(r) /\ blk.status = "ok"
            /\ en.exit = NoExit
            /\ 0 < blk.start /\ blk.start < blk.end /\ blk.end < Len(en.before) - 1

\* The place of a request in the fixed order: its group, then its position.
Rank(r) == CASE r.opt = "set" -> 1 [] r.opt = "delete-key" -> 2 [] OTHER -> 3
Precedes(p, q) ==
    \/ Rank(argv[p]) < Rank(argv[q])
    \/ Rank(argv[p]) = Rank(argv[q]) /\ p < q

\* C2: whatever the order in which the requests were given, every set is
\* applied before any delete-key and every delete-key before any
\* delete-section, and within a group in the order given: the requests applied
\* before one are exactly those that precede it in that order.
GroupOrder ==
    /\ \A n \in 1..Len(trace) :
          {p \in 1..Len(argv) : Precedes(p, trace[n].pos)}
             = {trace[m].pos : m \in 1..(n - 1)}
    /\ output.written => Len(trace) = Len(argv)

\* A run has gone through with a set that was given after a delete-section.
GroupOrderWitness ==
    /\ output.written
    /\ Len(trace) = 2
    /\ trace[1].pos = 2
    /\ argv[1].opt = "delete-section" /\ argv[2].opt = "set"
    /\ trace[2].after /= trace[2].before

\* A request succeeds on lines_: its payload is well formed, its path resolves,
\* and it does not delete the root.
Succeeds(lines_, r) ==
    CASE r.opt = "set" -> SetParses(r) /\ Resolve(lines_, PathOf(r)).status = "ok"
      [] r.opt = "delete-key" ->
           ParsedPath(r).ok /\ Resolve(lines_, PathOf(r)).status = "ok"
      [] OTHER ->
           LET sec == find_section_block(index_headers(lines_), PathOf(r))
           IN  ParsedPath(r).ok /\ sec.status = "ok" /\ sec.header.kind /= "root"

FailFastBeforeWrite ==
    /\ output.written =>
          /\ input.readable /\ Validates(TextRead)
          /\ pc = "exited" /\ exit_code \in {0, 5}
          /\ Len(trace) = Len(argv)
          /\ \A n \in 1..Len(trace) : Succeeds(trace[n].before, ReqAt(n))
    /\ \A n \in 1..Len(trace) :
          ~Succeeds(trace[n].before, ReqAt(n)) =>
              /\ n = Len(trace)
              /\ pc = "exited"
              /\ exit_code \in 2..4
              /\ ~output.written
    /\ (pc /= "start" /\ ~(input.readable /\ Validates(TextRead))) =>
          exit_code = 1 /\ trace = <<>> /\ ~output.written
    /\ exit_code \in 1..4 => ~output.written

\* A run has ended on a failing second request after its first had changed the
\* lines in memory.
FailFastWitness ==
    /\ Len(trace) = 2
    /\ trace[1].exit = NoExit /\ trace[1].after /= trace[1].before
    /\ ~Succeeds(trace[2].before, ReqAt(2))
    /\ pc = "exited" /\ exit_code = 2
    /\ ~output.written

\* A run whose operations all succeeded has ended on the write, with a part
\* of the text in the output file.
WriteBrokenOff ==
    /\ pc = "exited" /\ exit_code = 5
    /\ trace /= <<>>
    /\ output.written /\ output.text /= <<>> /\ output.text /= Flatten(lines)

\* C4: with two or more [[group]] headers of the same dotted path and no
\* [group] table, group.field without an index is AmbiguousPath (exit 3) for
\* set and delete-key; group[i].field, with i an occurrence that holds field,
\* resolves to the field assignment inside occurrence i, and a set changes
\* that line and no line before it or after its block.
AmbiguityDetected ==
    \A n \in 1..Len(trace) :
        LET en == trace[n]
            r == ReqAt(n)
            path == PathOf(r)
            table_path == SubSeq(path, 1, Len(path) - 1)
            last == table_path[Len(table_path)]
            field == path[Len(path)].name
            occs == HeadersOf(en.before, "aot", Names(table_path))
            tabs == HeadersOf(en.before, "table", Names(table_path))
            occ == CHOOSE h \in occs : h.aot_index = last.index
            j == CHOOSE k \in FieldLines(en.before, occ, field) : TRUE
            blk == Resolve(en.before, path)
        IN  (IsKeyEdit(r) /\ Len(path) >= 2 /\ Cardinality(occs) >= 2 /\ tabs = {}) =>
                /\ last.index = NoIndex => en.exit = 3 /\ en.after = en.before
                /\ ( /\ \E h \in occs : h.aot_index = last.index
                     /\ Cardinality(FieldLines(en.before, occ, field)) = 1 ) =>
                        /\ en.exit = NoExit
                        /\ blk.status = "ok" /\ blk.start = j
                        /\ \A i \in 0..(j - 1) : LineAt(en.after, i) = LineAt(en.before, i)
                        /\ r.opt = "set" =>
                              /\ LineAt(en.after, j) = SetLine(<<field>>, r)
                              /\ From(en.after, j + 1) = From(en.before, blk.end + 1)
                        /\ r.opt = "delete-key" =>
                              From(en.after, j) = From(en.before, blk.end + 1)

\* A set with the index 1 has changed the field of the second of two
\* occurrences.
AmbiguityDetectedWitness ==
    \E n \in 1..Len(trace) :
        LET en == trace[n]
            r == ReqAt(n)
            path == PathOf(r)
            table_path == SubSeq(path, 1, Len(path) - 1)
            occs == HeadersOf(en.before, "aot", Names(table_path))
        IN  /\ r.opt = "set" /\ SetParses(r) /\ Len(path) >= 2
            /\ table_path[Len(table_path)].index = 1
            /\ Cardinality(occs) >= 2
            /\ HeadersOf(en.before, "table", Names(table_path)) = {}
            /\ \E h \in occs :
                  /\ h.aot_index = 1
                  /\ Cardinality(FieldLines(en.before, h, path[Len(path)].name)) = 1
            /\ en.exit = NoExit /\ en.after /= en.before

\* C5: with exactly one [[g]] header of the dotted path g and no [g] table,
\* and exactly one assignment of k in that occurrence's lines, set and
\* delete-key on g.k without an index resolve to that assignment and report
\* neither PathNotFound nor AmbiguousPath.
SingleOccurrenceResolves ==
    \A n \in 1..Len(trace) :
        LET en == trace[n]
            r == ReqAt(n)
            path == PathOf(r)
            table_path == SubSeq(path, 1, Len(path) - 1)
            field == path[Len(path)].name
            occs == HeadersOf(en.before, "aot", Names(table_path))
            occ == CHOOSE h \in occs : TRUE
            j == CHOOSE k \in FieldLines(en.before, occ, field) : TRUE
            blk == Resolve(en.before, path)
        IN  ( /\ IsKeyEdit(r) /\ Len(path) >= 2
              /\ \A i \in 1..Len(path) : path[i].index = NoIndex
              /\ Cardinality(occs) = 1
              /\ HeadersOf(en.before, "table", Names(table_path)) = {}
              /\ Cardinality(FieldLines(en.before, occ, field)) = 1 ) =>
                /\ blk.status = "ok" /\ blk.start = j
                /\ en.exit = NoExit

\* The line after line s of lines_ that holds the next header, Len(lines_)
\* when there is none.
NextHeaderLine(lines_, s) ==
    LET hs == {j \in (s + 1)..(Len(lines_) - 1) :
                 _parse_header_line(LineAt(lines_, j)).kind /= "none"}
    IN  IF hs = {} THEN Len(lines_) ELSE Min(hs)

\* The last line owned by the header at line s that is neither blank nor
\* comment-only, s itself when there is none.
LastContentLine(lines_, s) ==
    LET own == {j \in (s + 1)..(NextHeaderLine(lines_, s) - 1) :
                  ~_is_comment_or_blank(LineAt(lines_, j))}
    IN  IF own = {} THEN s ELSE Max(own)

\* C6: for every non-root section that resolves, delete-section removes the
\* lines from the header line to the last owned line that is neither blank nor
\* comment-only, inclusive, and leaves every other line as it is: the blank
\* and comment lines before the next header stay, and so do the sections of a
\* longer path.
DeleteSectionExact ==
    \A n \in 1..Len(trace) :
        LET en == trace[n]
            r == ReqAt(n)
            sec == find_section_block(index_headers(en.before), PathOf(r))
            s == sec.header.start_line
        IN  (r.opt = "delete-section" /\ sec.status = "ok" /\ sec.header.kind /= "root") =>
                /\ en.exit = NoExit
                /\ en.after = Upto(en.before, s)
                                \o From(en.before, LastContentLine(en.before, s) + 1)

\* A section has been deleted whose content is followed by blank or comment
\* lines, with a header of a longer path after them.
DeleteSectionExactWitness ==
    \E n \in 1..Len(trace) :
        LET en == trace[n]
            r == ReqAt(n)
            sec == find_section_block(index_headers(en.before), PathOf(r))
            s == sec.header.start_line
            nxt == NextHeaderLine(en.before, s)
        IN  /\ r.opt = "delete-section" /\ sec.status = "ok" /\ sec.header.kind /= "root"
            /\ en.exit = NoExit
            /\ s < LastContentLine(en.before, s)
            /\ LastContentLine(en.before, s) < nxt - 1
            /\ nxt < Len(en.before)

\* C7: a delete-section whose path names an array-of-table section ([[p]]
\* headers, no [p] table) without an index on its last segment deletes no line
\* and is rejected with an error, whether there are one or several [[p]].
AotSectionNeedsIndex ==
    \A n \in 1..Len(trace) :
        LET en == trace[n]
            r == ReqAt(n)
            path == PathOf(r)
        IN  ( /\ r.opt = "delete-section" /\ path /= <<>>
              /\ path[Len(path)].index = NoIndex
              /\ HeadersOf(en.before, "aot", Names(path)) /= {}
              /\ HeadersOf(en.before, "table", Names(path)) = {} ) =>
                /\ en.exit /= NoExit
                /\ en.after = en.before

\* C8: in a document that validated, after any sequence of sets and
\* delete-keys whose targets resolved, the lines are again a document that
\* validates.
EditsPreserveValidity ==
    \A n \in 1..Len(trace) :
        (\A m \in 1..n : ReqAt(m).opt \in {"set", "delete-key"} /\ trace[m].exit = NoExit)
            => Validates(Flatten(trace[n].after))

\* The path text of a request: of a set, the text before the first "=".
PathText(r) ==
    IF r.opt = "set"
    THEN Strip(Upto(r.payload, Min({i \in 1..Len(r.payload) : r.payload[i] = "="}) - 1))
    ELSE Strip(r.payload)

\* A path text that is empty, has an empty segment (two dots in a row), or has
\* a double quote left open.
Malformed(p) ==
    \/ p = <<>>
    \/ \E i \in 1..(Len(p) - 1) : p[i] = "." /\ p[i + 1] = "."
    \/ Cardinality({i \in 1..Len(p) : p[i] = "\""}) % 2 = 1

\* C9: a set, delete-key or delete-section whose path text is malformed ends
\* the run with InvalidPayload (exit code 4).
MalformedPathIsInvalidPayload ==
    \A n \in 1..Len(trace) :
        Malformed(PathText(ReqAt(n))) => trace[n].exit = 4 /\ exit_code = 4

\* C10: for every structural value v, parse_toml_value(format_toml_value(v))
\* succeeds and is structurally equal to v, and format_toml_value(v) is a
\* single line.
FormatterIsLeftInverse ==
    fv.stage = "parsed" =>
        /\ fv.back.ok
        /\ fv.back.val = fv.val
        /\ \A i \in 1..Len(fv.text) : fv.text[i] /= "\n"

\* The lines of the text main has read.
InputLines == splitlines_keepends(TextRead)

\* The 0-based index of the first line of ls that is neither blank nor
\* comment-only, Len(ls) when there is none.
FirstContent(ls) ==
    Min({j \in 0..(Len(ls) - 1) : ~_is_comment_or_blank(LineAt(ls, j))} \cup {Len(ls)})

\* The replacement has just been made: main has reached its loops with a top
\* comment given and has applied nothing yet.
TopCommentDone == pc = "apply" /\ step = 0 /\ top_comment /= NoComment

\* The comment lines of a replacement text, each line written as Body gives it.
CommentLines(text, Body(_)) ==
    LET raw == splitlines(text)
    IN  [j \in 1..Len(raw) |->
            IF Strip(raw[j]) = <<>> THEN <<"#", "\n">>
            ELSE <<"#", " ">> \o Body(raw[j]) \o <<"\n">>]

\* The line as it is, and the line without its trailing whitespace.
WholeLine(l) == l
TrimmedLine(l) == RStrip(l)

\* The text after the replacement: the comment lines, one blank line, and the
\* input's lines from the first that is neither blank nor comment-only on.
TopReplaced(Body(_)) ==
    Flatten(CommentLines(top_comment, Body) \o << <<"\n">> >>
            \o From(InputLines, FirstContent(InputLines)))

\* C11 as stated: the result is one line per line of the replacement text, "# "
\* followed by the line for a non-blank line and a bare "#" for a blank one,
\* then exactly one blank line, then the input's lines from the first that is
\* neither blank nor comment-only through the end, unchanged; the leading run
\* of blank and comment-only lines is absent.
TopCommentAsStated ==
    TopCommentDone => Flatten(lines) = TopReplaced(WholeLine)

\* C11 amended: as stated, with "# " followed by the line without its trailing
\* whitespace for a non-blank line.
TopCommentReplaced ==
    TopCommentDone => Flatten(lines) = TopReplaced(TrimmedLine)

\* A text with a blank line, a line with trailing whitespace and a last line
\* has replaced a leading run of a comment and a blank line, with lines after.
TopCommentReplacedWitness ==
    /\ TopCommentDone
    /\ top_comment = T_btu
    /\ 0 < FirstContent(InputLines) /\ FirstContent(InputLines) < Len(InputLines)
    /\ Flatten(lines) /= TextRead

\* The header list of the line sequence ls is well formed.
HeaderIndexOK(ls) ==
    LET hs == index_headers(ls)
        bound(i) == IF i < Len(hs) THEN hs[i + 1].start_line ELSE Len(ls)
    IN  /\ Len(hs) >= 1
        /\ hs[1].kind = "root"
        /\ \A i \in 2..Len(hs) :
              /\ hs[i].kind \in {"table", "aot"}
              /\ i < Len(hs) => hs[i].start_line < hs[i + 1].start_line
              /\ hs[i].kind = "aot" =>
                    hs[i].aot_index =
                        Cardinality({j \in 2..(i - 1) :
                                        hs[j].kind = "aot" /\ hs[j].path = hs[i].path})
              /\ 0 <= hs[i].start_line
              /\ hs[i].start_line <= hs[i].end_line
              /\ hs[i].end_line < bound(i)

\* The line sequences index_headers has been run on or may be run on next: the
\* input's lines, the current lines, and the lines before and after every
\* request taken up.
SeenLines ==
    {InputLines, lines} \cup {trace[n].before : n \in 1..Len(trace)}
    \cup {trace[n].after : n \in 1..Len(trace)}

\* C12: index_headers returns exactly one root header, placed first; the
\* non-root headers have strictly increasing start lines; the array-of-table
\* headers of one dotted path carry the indices 0, 1, 2, ... in document order;
\* and every non-root header has start_line <= end_line < the next header's
\* start line (the number of lines for the last), so that owned spans never
\* overlap.
HeaderIndexInvariant ==
    \A ls \in SeenLines : HeaderIndexOK(ls)

\* The lines hold two array-of-table paths in turn, the second occurrence of
\* each after an occurrence of the other, and a header whose trailing comment
\* and blank lines are not its own.
HeaderIndexInvariantWitness ==
    \E ls \in SeenLines :
        LET hs == index_headers(ls)
        IN  /\ \E i, j \in 2..Len(hs) :
                  /\ i < j - 1
                  /\ hs[i].kind = "aot" /\ hs[j].kind = "aot"
                  /\ hs[i].path = hs[j].path /\ hs[j].aot_index = 1
                  /\ hs[j - 1].kind = "aot" /\ hs[j - 1].path /= hs[j].path
            /\ \E i \in 2..(Len(hs) - 1) :
                  hs[i].end_line < hs[i + 1].start_line - 1
            /\ pc = "exited" /\ output.written

\* The number of line feeds in the text s.
LineFeeds(s) == Cardinality({i \in 1..Len(s) : s[i] = "\n"})

\* The line of ls on which the value assigned on line i ends, as the TOML
\* parser reads the document: the line of the last character of the value that
\* starts after the "=" of line i; -1 when no value parses there.
ParsedValueEnd(ls, i) ==
    LET src == Flatten(ls)
        eq_pos == _find_equals_outside_quotes(LineAt(ls, i))
        pos == skip_chars(src, Len(Flatten(Upto(ls, i))) + eq_pos + 1, TOML_WS)
        v == Call("parse_value", <<src, pos, MainFrame + 5, NoWarmup>>)
    IN  IF eq_pos = -1 \/ ~v.ok THEN -1
        ELSE LineFeeds(SubSeq(src, 1, v.pos - 1))

\* C13: for an assignment of a valid document whose value runs over several
\* lines (an array, an inline table, a triple-quoted string), the end line
\* that _value_block_end gives the resolved block is the line on which the
\* value's closing delimiter stands, neither an earlier nor a later one.
ValueEndIsClosingLine ==
    \A n \in 1..Len(trace) :
        LET en == trace[n]
            r == ReqAt(n)
            blk == Resolve(en.before, PathOf(r))
        IN  ( /\ IsKeyEdit(r) /\ blk.status = "ok"
              /\ Validates(Flatten(en.before))
              /\ ParsedValueEnd(en.before, blk.start) > blk.start ) =>
                blk.end = ParsedValueEnd(en.before, blk.start)

\* The lines of the text src on which a table or array-of-table header stands,
\* as the TOML parser reads the document statement by statement from pos on:
\* a statement that opens with "[" is a header, one that opens with a key is a
\* key/value pair whose value may run over several lines, and the next
\* statement starts on the line after the statement's last.
RECURSIVE HeaderStatements(_, _, _)
HeaderStatements(src, pos0, acc) ==
    LET pos == skip_chars(src, pos0, TOML_WS)
        char == CharAt(src, pos)
        kv == Call("parse_key_value_pair", <<src, pos, MainFrame + 4, NoWarmup>>)
    IN  IF char = EOF THEN acc
        ELSE IF char = "\n" THEN HeaderStatements(src, pos + 1, acc)
        ELSE IF char = "#"
        THEN HeaderStatements(src, IndexOf(src, <<"\n">>, pos) + 1, acc)
        ELSE IF char = "["
        THEN HeaderStatements(src, IndexOf(src, <<"\n">>, pos) + 1,
                              acc \cup {LineFeeds(SubSeq(src, 1, pos))})
        ELSE IF ~kv.ok THEN acc
        ELSE HeaderStatements(src, IndexOf(src, <<"\n">>, kv.pos) + 1, acc)

\* The lines of ls that are table or array-of-table headers of the document.
RealHeaderLines(ls) == HeaderStatements(Flatten(ls), 0, {})

\* The lines of ls that index_headers reports as non-root headers.
IndexedHeaderLines(ls) ==
    {h.start_line : h \in {x \in Range(index_headers(ls)) : x.kind /= "root"}}

\* C14: in a valid document, every non-root header that index_headers reports
\* stands on a line that is a table or array-of-table header of the document;
\* a line inside a value of several lines is never one, so a request for a key
\* that follows such a value in its section is not answered with PathNotFound
\* for want of the section's lines.
OnlyRealHeadersIndexed ==
    \A n \in 1..Len(trace) :
        Validates(Flatten(trace[n].before)) =>
            IndexedHeaderLines(trace[n].before) \subseteq RealHeaderLines(trace[n].before)

\* The key/value statements of the text src as the TOML parser reads it from
\* pos on, each with its line, its key and the line of the header it stands
\* under (cur; -1 before the first header).
RECURSIVE Assignments(_, _, _, _)
Assignments(src, pos0, cur, acc) ==
    LET pos == skip_chars(src, pos0, TOML_WS)
        char == CharAt(src, pos)
        kv == Call("parse_key_value_pair", <<src, pos, MainFrame + 4, NoWarmup>>)
        line == LineFeeds(SubSeq(src, 1, pos))
    IN  IF char = EOF THEN acc
        ELSE IF char = "\n" THEN Assignments(src, pos + 1, cur, acc)
        ELSE IF char = "#"
        THEN Assignments(src, IndexOf(src, <<"\n">>, pos) + 1, cur, acc)
        ELSE IF char = "["
        THEN Assignments(src, IndexOf(src, <<"\n">>, pos) + 1, line, acc)
        ELSE IF ~kv.ok THEN acc
        ELSE Assignments(src, IndexOf(src, <<"\n">>, kv.pos) + 1, cur,
                         acc \cup {[line |-> line, key |-> kv.val.key, header |-> cur]})

\* The lines of ls that assign the key field under the header at line h.
RealFieldLines(ls, h, field) ==
    {a.line : a \in {x \in Assignments(Flatten(ls), 0, -1, {}) :
                        x.header = h /\ x.key = <<field>>}}

\* C15: in a valid document whose headers are indexed as they stand, when the
\* section of the requested path resolves and the document assigns the
\* requested key exactly once in it, find_assignment_block_by_full_path
\* returns the block that starts at that assignment and does not report
\* AmbiguousPath, whatever lines the values of the section hold.
InnerLinesNotCounted ==
    \A n \in 1..Len(trace) :
        LET en == trace[n]
            r == ReqAt(n)
            path == PathOf(r)
            table_path == SubSeq(path, 1, Len(path) - 1)
            field == path[Len(path)].name
            sec == find_section_block(index_headers(en.before), table_path)
            own == RealFieldLines(en.before, sec.header.start_line, field)
            blk == Resolve(en.before, path)
        IN  ( /\ IsKeyEdit(r) /\ path /= <<>>
              /\ Validates(Flatten(en.before))
              /\ IndexedHeaderLines(en.before) = RealHeaderLines(en.before)
              /\ sec.status = "ok"
              /\ _segments_equal(id_segments(sec.header), table_path)
              /\ Cardinality(own) = 1 ) =>
                /\ blk.status = "ok"
                /\ blk.start \in own
                /\ en.exit = NoExit

============================================================================
